---------------------------- MODULE Spec2Model ----------------------------
(***************************************************************************)
(* A model of the godzillops chat bot: the GZChunker that labels a tagged  *)
(* token stream, Chat.determine_action that resolves the action and its    *)
(* keyword arguments, the per-user action_state dictionary, the            *)
(* requires_admin gate, Chat.respond, and the action methods, which are    *)
(* Python generators: respond returns them unstarted and their bodies run  *)
(* only while the caller iterates over the returned responses.             *)
(***************************************************************************)
EXTENDS Integers, Sequences, FiniteSets, TLC

(***************************************************************************)
(* Python dictionaries: functions whose DOMAIN is the set of present keys. *)
(***************************************************************************)
EmptyDict == <<>>

Has(d, k) == k \in DOMAIN d

\* d[k] = v
Put(d, k, v) == [x \in (DOMAIN d) \cup {k} |-> IF x = k THEN v ELSE d[x]]

\* d.update(e)
Update(d, e) == [x \in (DOMAIN d) \cup (DOMAIN e) |-> IF x \in DOMAIN e THEN e[x] ELSE d[x]]

\* d.pop(k, ...) without the returned value
Del(d, k) == [x \in (DOMAIN d) \ {k} |-> d[x]]

\* Python's None, and d.get(k)
None == "None"

Get(d, k) == IF Has(d, k) THEN d[k] ELSE None

(***************************************************************************)
(* Words.  A word of the input text is a string; the properties of a word  *)
(* the code looks at (its lower-cased form, whether its first letter is    *)
(* upper case, whether the email pattern matches) are tables over the      *)
(* words of the model.                                                     *)
(***************************************************************************)
SlackEmail == "<mailto:b@x.co|b@x.co>"

\* A word the external tagger fails on
Untaggable == "<untaggable>"

Words ==
    { "gz", "hi", "b@x.co", SlackEmail, "@bob", "create", "add", "invite",
      "google", "title", "trello", "github", "abacus", "stop", "Nevermind",
      "Bill", "Tester", "software", "designer", "backend", "the", "bob",
      ".", "b", "x", "co", "mailto", Untaggable }

\* str.lower()
Lower(w) ==
    CASE w = "Bill" -> "bill"
      [] w = "Tester" -> "tester"
      [] w = "Nevermind" -> "nevermind"
      [] OTHER -> w

\* word[0].isupper()
IsUpperFirst(w) == w \in {"Bill", "Tester", "Nevermind"}

\* The part-of-speech tags of the Brown tagset the code distinguishes: a
\* proper noun (NP...), a verb (VB...), anything else.
Tags == {"NP", "VB", "NN"}

Tok(w, t) == [word |-> w, tag |-> t]

(***************************************************************************)
(* Tokenizers.  The Twitter tokenizer keeps the words of the text; the     *)
(* alphanumeric regular expression [\w]+ cuts each word at every character *)
(* that is not a letter, digit or underscore and drops those characters.   *)
(***************************************************************************)
RawPieces(w) ==
    CASE w = "b@x.co" -> <<"b", "x", "co">>
      [] w = SlackEmail -> <<"mailto", "b", "x", "co", "b", "x", "co">>
      [] w = "@bob" -> <<"bob">>
      [] w = "." -> <<>>
      [] OTHER -> <<w>>

RECURSIVE RegexpTokenize(_)
RegexpTokenize(text) ==
    IF text = <<>> THEN <<>>
    ELSE LET h == Head(text)
             ps == RawPieces(h.word)
         IN  [i \in 1..Len(ps) |-> Tok(ps[i], IF ps[i] = h.word THEN h.tag ELSE "NN")]
             \o RegexpTokenize(Tail(text))

TweetTokenize(text) == text

(***************************************************************************)
(* The mini-corpora of GZChunker and the configuration the tests run with. *)
(***************************************************************************)
create_actions == {"create", "add", "generate", "make"}
invite_actions == {"add", "invite"}
dev_titles == {"data", "scientist", "software", "developer", "engineer", "coder", "programmer"}
design_titles == {"designer", "ux", "product", "graphic"}
founder_titles == {"founder", "ceo", "cto", "gm", "general", "manager"}
creative_titles == {"content", "creative"}
greetings == {"hey", "hello", "sup", "greetings", "hi", "yo", "howdy"}
gz_aliases == {"godzillops", "godzilla", "gojira", "gz"}
cancel_actions == {"stop", "cancel", "nevermind", "quit"}

\* email_regexp.match(lword)
EmailMatch(lw) == lw \in {"b@x.co", SlackEmail}

\* The Slack wrapping <mailto:x|x> and a pasted mailto:x are stripped.
UnwrapEmail(lw) == IF lw = SlackEmail THEN "b@x.co" ELSE lw

StartsWithAt(lw) == lw \in {"@bob"}

StripAt(lw) == IF lw = "@bob" THEN "bob" ELSE lw

GOOGLE_GROUP_TAGS == <<"GDEV", "GDES", "GCRE", "GFOU">>

GOOGLE_GROUPS ==
    [GDEV |-> <<"dev">>, GDES |-> <<"design">>, GCRE |-> <<"creatives">>, GFOU |-> <<"founders">>]

GOOGLE_DEV_ROLES == <<"backend", "frontend">>

GITHUB_DEV_ROLES == [backend |-> <<1, 2>>, frontend |-> <<1, 3>>]

ADMINS == {"text"}

SeqToSet(s) == {s[i] : i \in DOMAIN s}


(***************************************************************************)
(* GZChunker.  in_dict is a defaultdict(bool): a record of flags, FALSE    *)
(* where the key is absent.  finding_title is TRUE exactly while the key   *)
(* is present: it is created by the read in _parse_job_title only in the   *)
(* branch that then sets it, and removed by del.                           *)
(***************************************************************************)
NoFlags ==
    [create_action |-> FALSE, create_google_account |-> FALSE, check_for_title |-> FALSE,
     finding_title |-> FALSE, invite_action |-> FALSE, invite_to_trello |-> FALSE,
     invite_to_github |-> FALSE, invite_to_abacus |-> FALSE, person |-> FALSE]

InviteActions == {"invite_to_trello", "invite_to_github", "invite_to_abacus"}

MutatingActions == {"create_google_account"} \cup InviteActions

\* action.startswith('invite_to'), over the action names a state can hold
StartsWithInviteTo(a) == a \in InviteActions

\* GZChunker._generate_in_dict: the flags a pending action seeds.  Reading
\* action_state['step'] raises KeyError when the key is absent.
GenerateInDictRaises(st) ==
    Get(st, "action") = "create_google_account" /\ ~Has(st, "step")

\* Flags that take a creation for pending whatever the state
GenerateInDictCreating(st) ==
    [NoFlags EXCEPT !.create_action = TRUE, !.create_google_account = TRUE]

\* Flags that forget the pending title step
GenerateInDictNoTitleStep(st) ==
    LET action == IF Get(st, "action") = None THEN "" ELSE st["action"] IN
    IF action = "create_google_account"
    THEN [NoFlags EXCEPT !.create_action = TRUE, !.create_google_account = TRUE]
    ELSE IF StartsWithInviteTo(action)
    THEN [NoFlags EXCEPT !.invite_action = TRUE, ![action] = TRUE]
    ELSE NoFlags

GenerateInDict(st) ==
    LET action == IF Get(st, "action") = None THEN "" ELSE st["action"] IN
    IF action = "create_google_account"
    THEN [NoFlags EXCEPT !.create_action = TRUE, !.create_google_account = TRUE,
                         !.check_for_title = (st["step"] = "title")]
    ELSE IF StartsWithInviteTo(action)
    THEN [NoFlags EXCEPT !.invite_action = TRUE, ![action] = TRUE]
    ELSE NoFlags

Iob(w, t, bio, label) == [word |-> w, tag |-> t, bio |-> bio, label |-> label]

\* A title search that a word which is no title does not close
ParseJobTitleStaysOpen(d, word, tag, lword) ==
    LET track ==
            IF lword \in dev_titles THEN "GDEV"
            ELSE IF lword \in design_titles THEN "GDES"
            ELSE IF lword \in creative_titles THEN "GCRE"
            ELSE IF lword \in founder_titles THEN "GFOU"
            ELSE "NP"
        title == lword \in dev_titles \cup design_titles \cup creative_titles \cup founder_titles
                 \/ tag = "NP"
    IN  IF title
        THEN [d |-> [d EXCEPT !.finding_title = TRUE],
              iob |-> [word |-> word, tag |-> track,
                       bio |-> IF d.finding_title THEN "I" ELSE "B", label |-> "JOB_TITLE"]]
        ELSE [d |-> d, iob |-> [word |-> word, tag |-> tag, bio |-> "O", label |-> ""]]

\* A title search that every word which is no title closes
ParseJobTitleAlwaysCloses(d, word, tag, lword) ==
    LET track ==
            IF lword \in dev_titles THEN "GDEV"
            ELSE IF lword \in design_titles THEN "GDES"
            ELSE IF lword \in creative_titles THEN "GCRE"
            ELSE IF lword \in founder_titles THEN "GFOU"
            ELSE "NP"
        title == lword \in dev_titles \cup design_titles \cup creative_titles \cup founder_titles
                 \/ tag = "NP"
    IN  IF title
        THEN [d |-> [d EXCEPT !.finding_title = TRUE],
              iob |-> [word |-> word, tag |-> track,
                       bio |-> IF d.finding_title THEN "I" ELSE "B", label |-> "JOB_TITLE"]]
        ELSE [d |-> [d EXCEPT !.finding_title = FALSE, !.check_for_title = FALSE],
              iob |-> [word |-> word, tag |-> tag, bio |-> "O", label |-> ""]]

\* GZChunker._parse_job_title: the entry for one token in the title search,
\* and the flags after it.
ParseJobTitle(d, word, tag, lword) ==
    LET probably_dev == lword \in dev_titles
        probably_design == lword \in design_titles
        probably_creative == lword \in creative_titles
        probably_founder == lword \in founder_titles
        job_title_tag ==
            IF probably_dev THEN "GDEV"
            ELSE IF probably_design THEN "GDES"
            ELSE IF probably_creative THEN "GCRE"
            ELSE IF probably_founder THEN "GFOU"
            ELSE "NP"
        probably_job_title ==
            probably_dev \/ probably_design \/ probably_creative \/ probably_founder
            \/ tag = "NP"
    IN  IF probably_job_title /\ d.finding_title
        THEN [d |-> d, iob |-> Iob(word, job_title_tag, "I", "JOB_TITLE")]
        ELSE IF probably_job_title
        THEN [d |-> [d EXCEPT !.finding_title = TRUE],
              iob |-> Iob(word, job_title_tag, "B", "JOB_TITLE")]
        ELSE IF d.finding_title
        THEN [d |-> [d EXCEPT !.finding_title = FALSE, !.check_for_title = FALSE],
              iob |-> Iob(word, tag, "O", "")]
        ELSE [d |-> d, iob |-> Iob(word, tag, "O", "")]

IsDevRoleWord(lw) == lw \in SeqToSet(GOOGLE_DEV_ROLES) \/ lw \in DOMAIN GITHUB_DEV_ROLES

\* The cancel test without "not iobs"
CancelAnywhere(d, lword, first) ==
    lword \in cancel_actions /\ (d.create_action \/ d.invite_action)

\* The condition of the cancel branch of GZChunker.parse
CancelFirst(d, lword, first) ==
    lword \in cancel_actions /\ (d.create_action \/ d.invite_action) /\ first

\* One pass of the while loop of GZChunker.parse: the first rule that
\* matches the token.  first is "not iobs"; stop is the break.
ChunkToken(d, tok, first) ==
    LET word == tok.word
        tag == tok.tag
        lword == Lower(word)
        R(d2, iob) == [d |-> d2, iob |-> iob, stop |-> FALSE]
    IN  IF lword \in gz_aliases
        THEN R(d, Iob(word, tag, "B", "GODZILLA"))
        ELSE IF lword \in greetings
        THEN R(d, Iob(word, tag, "B", "GREETING"))
        ELSE IF EmailMatch(lword)
        THEN R(d, Iob(UnwrapEmail(lword), "NN", "B", "EMAIL"))
        ELSE IF StartsWithAt(lword)
        THEN R(d, Iob(StripAt(lword), tag, "B", "USERNAME"))
        ELSE IF lword \in create_actions /\ tag = "VB"
        THEN R([d EXCEPT !.create_action = TRUE,
                         !.invite_action = (@ \/ lword \in invite_actions)],
               Iob(word, tag, "O", ""))
        ELSE IF d.create_action /\ lword = "google"
        THEN R([d EXCEPT !.create_google_account = TRUE],
               Iob(word, tag, "B", "CREATE_GOOGLE_ACCOUNT"))
        ELSE IF d.create_google_account /\ lword = "title"
        THEN R([d EXCEPT !.check_for_title = TRUE], Iob(word, tag, "O", ""))
        ELSE IF d.check_for_title
        THEN LET r == ParseJobTitle(d, word, tag, lword) IN R(r.d, r.iob)
        ELSE IF IsDevRoleWord(lword)
        THEN R(d, Iob(lword, tag, "B", "DEV_ROLE"))
        ELSE IF lword \in invite_actions /\ tag = "VB"
        THEN R([d EXCEPT !.invite_action = TRUE], Iob(word, tag, "O", ""))
        ELSE IF d.invite_action /\ lword = "trello"
        THEN R([d EXCEPT !.invite_to_trello = TRUE], Iob(word, tag, "B", "INVITE_TO_TRELLO"))
        ELSE IF d.invite_action /\ lword = "github"
        THEN R([d EXCEPT !.invite_to_github = TRUE], Iob(word, tag, "B", "INVITE_TO_GITHUB"))
        ELSE IF d.invite_action /\ lword = "abacus"
        THEN R([d EXCEPT !.invite_to_abacus = TRUE], Iob(word, tag, "B", "INVITE_TO_ABACUS"))
        ELSE IF CancelFirst(d, lword, first)
        THEN [d |-> d, iob |-> Iob(word, tag, "B", "CANCEL"), stop |-> TRUE]
        ELSE IF tag = "NP" \/ (d.person /\ IsUpperFirst(word))
        THEN IF d.person
             THEN R(d, Iob(word, tag, "I", "PERSON"))
             ELSE R([d EXCEPT !.person = TRUE], Iob(word, tag, "B", "PERSON"))
        ELSE R([d EXCEPT !.person = FALSE], Iob(word, tag, "O", ""))

\* The while loop of GZChunker.parse from token i on.
RECURSIVE ParseFrom(_, _, _, _)
ParseFrom(tagged_text, i, d, iobs) ==
    IF i > Len(tagged_text) THEN iobs
    ELSE LET r == ChunkToken(d, tagged_text[i], iobs = <<>>) IN
         IF r.stop THEN Append(iobs, r.iob)
         ELSE ParseFrom(tagged_text, i + 1, r.d, Append(iobs, r.iob))

\* nltk.chunk.conlltags2tree: the children of the tree in order.  A B- entry
\* opens a chunk; an I- entry extends the last child when that is a chunk of
\* the same label and opens a chunk otherwise; an O entry is a bare leaf
\* (label "").
RECURSIVE ConllTags2Tree(_, _)
ConllTags2Tree(iobs, tree) ==
    IF iobs = <<>> THEN tree
    ELSE LET e == Head(iobs)
             leaf == Tok(e.word, e.tag)
             n == Len(tree)
         IN  IF e.bio = "I" /\ n > 0 /\ tree[n].label = e.label
             THEN ConllTags2Tree(Tail(iobs),
                      [tree EXCEPT ![n].leaves = Append(@, leaf)])
             ELSE ConllTags2Tree(Tail(iobs),
                      Append(tree, [label |-> e.label, leaves |-> <<leaf>>]))

\* GZChunker.parse
Parse(tagged_text, st) ==
    ConllTags2Tree(ParseFrom(tagged_text, 1, GenerateInDict(st), <<>>), <<>>)

\* Tree.leaves(): every (word, tag) of the tree in order
RECURSIVE Leaves(_)
Leaves(tree) ==
    IF tree = <<>> THEN <<>> ELSE Head(tree).leaves \o Leaves(Tail(tree))

\* ' '.join(l[0] for l in subtree.leaves()), as the sequence of the words
JoinWords(leaves) == [i \in 1..Len(leaves) |-> leaves[i].word]

(***************************************************************************)
(* Chat.determine_action.  A state is one user's entry of action_state: a  *)
(* dictionary with the keys action, kwargs, step and regexp_tokenize, each *)
(* present or not; {} when the user has no entry.                          *)
(***************************************************************************)
\* Tree.subtrees() below the root: the chunks, without the bare leaves
Subtrees(tree) == SelectSeq(tree, LAMBDA c : c.label # "")

\* label.startswith(('CREATE_', 'INVITE_'))
IsTriggerLabel(label) ==
    label \in {"CREATE_GOOGLE_ACCOUNT", "INVITE_TO_TRELLO", "INVITE_TO_GITHUB", "INVITE_TO_ABACUS"}

\* label.lower()
LabelLower(label) ==
    CASE label = "CREATE_GOOGLE_ACCOUNT" -> "create_google_account"
      [] label = "INVITE_TO_TRELLO" -> "invite_to_trello"
      [] label = "INVITE_TO_GITHUB" -> "invite_to_github"
      [] label = "INVITE_TO_ABACUS" -> "invite_to_abacus"

\* The action after the loop over the subtrees, starting from the pending one
RECURSIVE ResolveAction(_, _, _)
ResolveAction(spans, action, st) ==
    IF spans = <<>> THEN action
    ELSE LET label == Head(spans).label
             next ==
                 IF label = "GREETING" THEN "greet"
                 ELSE IF label = "GODZILLA" /\ action = None THEN "gz_gif"
                 ELSE IF IsTriggerLabel(label) THEN LabelLower(label)
                 ELSE IF label = "CANCEL" /\ Get(st, "action") # None THEN "cancel"
                 ELSE action
         IN  ResolveAction(Tail(spans), next, st)

\* entity_dict[label] for the single-word entities: one word per span
RECURSIVE WordEntities(_, _)
WordEntities(spans, label) ==
    IF spans = <<>> THEN <<>>
    ELSE (IF Head(spans).label = label THEN <<Head(spans).leaves[1].word>> ELSE <<>>)
         \o WordEntities(Tail(spans), label)

\* entity_dict[label] for PERSON and JOB_TITLE: the words of each span
RECURSIVE PhraseEntities(_, _)
PhraseEntities(spans, label) ==
    IF spans = <<>> THEN <<>>
    ELSE (IF Head(spans).label = label THEN <<JoinWords(Head(spans).leaves)>> ELSE <<>>)
         \o PhraseEntities(Tail(spans), label)

\* group_check after the loop over the leaves of one JOB_TITLE span: every
\* leaf assigns every tag, so the last leaf decides.
GroupCheck(leaves, gtag) == leaves[Len(leaves)].tag = gtag

RECURSIVE GroupsOfTags(_, _)
GroupsOfTags(leaves, tags) ==
    IF tags = <<>> THEN <<>>
    ELSE (IF GroupCheck(leaves, Head(tags)) THEN GOOGLE_GROUPS[Head(tags)] ELSE <<>>)
         \o GroupsOfTags(leaves, Tail(tags))

\* entity_dict['GOOGLE_GROUPS']
RECURSIVE GoogleGroupEntities(_)
GoogleGroupEntities(spans) ==
    IF spans = <<>> THEN <<>>
    ELSE (IF Head(spans).label = "JOB_TITLE"
          THEN GroupsOfTags(Head(spans).leaves, GOOGLE_GROUP_TAGS) ELSE <<>>)
         \o GoogleGroupEntities(Tail(spans))

\* An assignment that drops the key when the turn found no entity for it
PutIfDrop(d, k, list) == IF list # <<>> THEN Put(d, k, list[1]) ELSE Del(d, k)

PutIf(d, k, list) == IF list # <<>> THEN Put(d, k, list[1]) ELSE d

\* The block "Prepare New Kwarg Values for selected action"
NewKwargs(kwargs, spans) ==
    LET k1 == PutIf(kwargs, "job_title", PhraseEntities(spans, "JOB_TITLE"))
        k2 == PutIf(k1, "person", PhraseEntities(spans, "PERSON"))
        k3 == PutIf(k2, "email", WordEntities(spans, "EMAIL"))
        k4 == PutIf(k3, "username", WordEntities(spans, "USERNAME"))
        groups == GoogleGroupEntities(spans)
        k5 == IF groups # <<>> THEN Put(k4, "google_groups", groups) ELSE k4
        roles == WordEntities(spans, "DEV_ROLE")
    IN  IF roles = <<>> THEN k5
        ELSE IF Has(k5, "google_groups")
        THEN Put(k5, "google_groups", k5["google_groups"] \o roles)
        ELSE Put(k5, "dev_role", roles[1])

\* The two short circuits on a pending username step; both read
\* action_state['step'].
ShortCircuitAction(st) == Get(st, "action") \in {"create_google_account", "invite_to_github"}

\* Chat._set_action_state on one entry: setdefault, then update
SetActionState(as, id, new) ==
    Put(as, id, Update(IF Has(as, id) THEN as[id] ELSE EmptyDict, new))

\* Chat._get_action_state
GetActionState(as, id) == IF Has(as, id) THEN as[id] ELSE EmptyDict

\* Chat.determine_action for the user id of the context: whether it raises,
\* the returned (action, kwargs), and action_state afterwards.  kwargs is the
\* dictionary stored in the entry, changed in place.
DetermineAction(tree, st, as, id) ==
    LET action == Get(st, "action")
        kwargs == IF Has(st, "kwargs") THEN st["kwargs"] ELSE EmptyDict
        spans == Subtrees(tree)
        leaves == Leaves(tree)
        Raise == [raised |-> TRUE, action |-> None, kwargs |-> EmptyDict, as |-> as]
    IN  IF ShortCircuitAction(st) /\ ~Has(st, "step") THEN Raise
        ELSE IF ShortCircuitAction(st) /\ st["step"] = "username"
        THEN IF leaves = <<>> THEN Raise
             ELSE LET kw == Put(kwargs, "username", leaves[1].word) IN
                  [raised |-> FALSE, action |-> action, kwargs |-> kw,
                   as |-> IF Has(st, "kwargs") /\ Has(as, id)
                          THEN Put(as, id, Put(as[id], "kwargs", kw)) ELSE as]
        ELSE IF (\E i \in DOMAIN spans : spans[i].label = "CANCEL") /\ ~Has(st, "action")
        THEN Raise
        ELSE LET resolved == ResolveAction(spans, action, st)
                 kw == IF resolved # "cancel" THEN NewKwargs(kwargs, spans) ELSE kwargs
             IN  [raised |-> FALSE, action |-> resolved, kwargs |-> kw,
                  as |-> SetActionState(as, id, [action |-> resolved, kwargs |-> kw])]

(***************************************************************************)
(* The message context.  A context is a dictionary: the key user holds a   *)
(* dictionary with the keys id and name; _set_context adds the key admin.  *)
(***************************************************************************)
Users == {"text", "U01234567"}

\* The display name the platform sends for a user id
NameOf(id) == IF id = "text" THEN "text" ELSE "ben"

\* The contexts a platform passes to respond: None, a full context, one
\* whose user has no name, one whose user has no id, one with no user.
FullContext(id) == [user |-> [id |-> id, name |-> NameOf(id)]]

NoNameContext(id) == [user |-> [id |-> id]]

NoIdContext == [user |-> [name |-> "ben"]]

NoUserContext == EmptyDict

NoContext == [none |-> TRUE]

Contexts ==
    {NoContext, NoIdContext, NoUserContext}
    \cup {FullContext(id) : id \in Users} \cup {NoNameContext(id) : id \in Users}

\* Chat._set_context: whether it raises, and self.context afterwards
SetContext(context, old) ==
    IF context = NoContext
    THEN [raised |-> FALSE,
          context |-> [user |-> [id |-> "text", name |-> "text"], admin |-> TRUE]]
    ELSE IF ~Has(context, "user")
    THEN [raised |-> TRUE, context |-> old]
    ELSE IF ~Has(context["user"], "id")
    THEN [raised |-> TRUE, context |-> context]
    ELSE [raised |-> FALSE,
          context |-> Put(context, "admin", context["user"]["id"] \in ADMINS)]

CtxHasId(ctx) == Has(ctx, "user") /\ Has(ctx["user"], "id")

CtxHasName(ctx) == Has(ctx, "user") /\ Has(ctx["user"], "name")

(***************************************************************************)
(* Output units: a message, or the dictionary _clear_action_state returns. *)
(* The text of a message is its fixed part; args are the formatted values, *)
(* each a sequence of words.                                               *)
(***************************************************************************)
Msg(text, args) == [kind |-> "msg", text |-> text, args |-> args]

Fallback == Msg("I... erm... what? Try again.", <<>>)

CancelMessage == Msg("Previous action canceled. I didn't want to do it anyways.", <<>>)

Completed(flag, text, args) ==
    [kind |-> "completed", admin_action_complete |-> flag,
     message |-> [text |-> text, args |-> args]]

\* A message that names no action
CompletedMessageGeneric(old, name) ==
    [raised |-> FALSE, text |-> "Command completed.", args |-> <<>>]

\* The message of a completed action, or "KeyError" when a key it formats
\* is absent from the popped state.
CompletedMessage(old, name) ==
    LET completed_action == Get(old, "action")
        kw == IF Has(old, "kwargs") THEN old["kwargs"] ELSE EmptyDict
        Bidding(text, keys, args) ==
            IF ~Has(old, "kwargs") \/ \E k \in keys : ~Has(kw, k)
            THEN [raised |-> TRUE, text |-> "KeyError", args |-> <<>>]
            ELSE [raised |-> FALSE, text |-> text, args |-> <<<<name>>>> \o args]
    IN  IF completed_action = "create_google_account"
        THEN Bidding("I have created a new Google Account for {person}.", {"person"},
                     IF Has(kw, "person") THEN <<kw["person"]>> ELSE <<>>)
        ELSE IF completed_action = "invite_to_trello"
        THEN Bidding("I have invited {person} <{email}> to join our Trello organization.",
                     {"person", "email"},
                     IF Has(kw, "person") /\ Has(kw, "email")
                     THEN <<kw["person"], <<kw["email"]>>>> ELSE <<>>)
        ELSE IF completed_action = "invite_to_github"
        THEN Bidding("I have invited {} to join our GitHub organization.", {"username"},
                     IF Has(kw, "username") THEN <<<<kw["username"]>>>> ELSE <<>>)
        ELSE IF completed_action = "invite_to_abacus"
        THEN Bidding("I have invited <{email}> to join our Abacus organization.", {"email"},
                     IF Has(kw, "email") THEN <<<<kw["email"]>>>> ELSE <<>>)
        ELSE [raised |-> FALSE, text |-> "Command completed.", args |-> <<>>]

\* A flag that forgets whether the action succeeded
AdminActionCompleteIgnoresSuccess(ctx, action_success, admin_required) ==
    admin_required /\ ctx["admin"]

\* completed_dict['admin_action_complete']
AdminActionComplete(ctx, action_success, admin_required) ==
    action_success /\ admin_required /\ ctx["admin"]

\* Chat._clear_action_state: the entry of the context's user is popped
\* first; building the returned dictionary may then raise KeyError.
ClearActionState(as, ctx, action_success, admin_required) ==
    IF ~CtxHasId(ctx)
    THEN [raised |-> TRUE, popped |-> FALSE, as |-> as, unit |-> Fallback]
    ELSE LET id == ctx["user"]["id"]
             old == GetActionState(as, id)
             as2 == Del(as, id)
             Raise == [raised |-> TRUE, popped |-> TRUE, as |-> as2, unit |-> Fallback]
         IN  IF action_success /\ admin_required /\ ~Has(ctx, "admin") THEN Raise
             ELSE LET flag == AdminActionComplete(ctx, action_success, admin_required) IN
                  IF ~action_success
                  THEN [raised |-> FALSE, popped |-> TRUE, as |-> as2,
                        unit |-> Completed(flag, "I have failed you.", <<>>)]
                  ELSE IF ~CtxHasName(ctx) THEN Raise
                  ELSE LET m == CompletedMessage(old, ctx["user"]["name"]) IN
                       IF m.raised THEN Raise
                       ELSE [raised |-> FALSE, popped |-> TRUE, as |-> as2,
                             unit |-> Completed(flag, m.text, m.args)]

(***************************************************************************)
(* The action methods.  Each is a generator: a generator object g holds    *)
(* the method (fn), the keyword arguments bound at the call (kw), the      *)
(* place it is suspended at (pc) and its local success.  One step resumes  *)
(* it up to its next yield: the step changes action_state, calls external  *)
(* handlers (with outcome oc: "ok", "fail" or "raise") and then emits one  *)
(* unit, or raises, or returns.  self.context is read when the step runs.  *)
(***************************************************************************)
Gen(fn, kw) == [fn |-> fn, kw |-> kw, pc |-> "start", success |-> FALSE]

NoGen == [fn |-> "", kw |-> EmptyDict, pc |-> "", success |-> FALSE]

Call(api, args, oc) == [api |-> api, args |-> args, outcome |-> oc]

\* The result of one step: the generator stays suspended after a yield
\* (pc), has returned (pc = "end") or has raised (raised).
StepResult(as, g, pc) ==
    [as |-> as, g |-> [g EXCEPT !.pc = pc], emit |-> <<>>, calls |-> <<>>,
     raised |-> FALSE, popped |-> FALSE, stepset |-> None]

Raised(as, g, calls) ==
    [StepResult(as, g, "end") EXCEPT !.raised = TRUE, !.calls = calls]

\* A prompt that echoes its question
PromptTwice(as, ctx, g, new, question) ==
    IF ~CtxHasId(ctx) THEN Raised(as, g, <<>>)
    ELSE [StepResult(SetActionState(as, ctx["user"]["id"], new), g, "end")
          EXCEPT !.emit = <<question, question>>, !.stepset = new.step]

\* self._set_action_state(step=..., [regexp_tokenize=True]); yield question
Prompt(as, ctx, g, new, question) ==
    IF ~CtxHasId(ctx) THEN Raised(as, g, <<>>)
    ELSE [StepResult(SetActionState(as, ctx["user"]["id"], new), g, "end")
          EXCEPT !.emit = <<question>>, !.stepset = new.step]

\* A clear that keeps the state of a failed action, to be retried
YieldClearOnSuccessOnly(as, ctx, g, success, admin_required) ==
    LET c == ClearActionState(as, ctx, success, admin_required)
        as2 == IF success THEN c.as ELSE as
    IN  IF c.raised THEN [Raised(as2, g, <<>>) EXCEPT !.popped = c.popped /\ success]
        ELSE [StepResult(as2, g, "end") EXCEPT !.emit = <<c.unit>>, !.popped = success]

\* A clear after the last response: the generator returns without yielding
\* the record
ClearThenReturn(as, ctx, g, success, admin_required) ==
    LET c == ClearActionState(as, ctx, success, admin_required) IN
    IF c.raised THEN [Raised(c.as, g, <<>>) EXCEPT !.popped = c.popped]
    ELSE [StepResult(c.as, g, "end") EXCEPT !.popped = TRUE]

\* yield self._clear_action_state(success, admin_required)
YieldClear(as, ctx, g, success, admin_required) ==
    LET c == ClearActionState(as, ctx, success, admin_required) IN
    IF c.raised THEN [Raised(c.as, g, <<>>) EXCEPT !.popped = c.popped]
    ELSE [StepResult(c.as, g, "end") EXCEPT !.emit = <<c.unit>>, !.popped = TRUE]

\* A cancel that reports completion without popping the state
CancelStepKeepsState(as, ctx, g, oc) ==
    IF g.pc = "start"
    THEN [StepResult(as, g, "clear") EXCEPT !.emit = <<CancelMessage>>]
    ELSE [YieldClear(as, ctx, g, TRUE, FALSE) EXCEPT !.as = as]

\* Chat.cancel
CancelStep(as, ctx, g, oc) ==
    IF g.pc = "start"
    THEN [StepResult(as, g, "clear") EXCEPT !.emit = <<CancelMessage>>]
    ELSE YieldClear(as, ctx, g, TRUE, FALSE)

\* str.title() of a greeting
Title(w) ==
    CASE w = "hey" -> "Hey" [] w = "hello" -> "Hello" [] w = "sup" -> "Sup"
      [] w = "greetings" -> "Greetings" [] w = "hi" -> "Hi" [] w = "yo" -> "Yo"
      [] w = "howdy" -> "Howdy"

\* Chat.greet; word is random.choice(list(self.chunker.greetings))
GreetStep(as, ctx, g, word) ==
    IF g.pc = "start"
    THEN [StepResult(as, g, "help") EXCEPT !.emit = <<Msg(Title(word), <<>>)>>]
    ELSE IF g.pc = "help"
    THEN [StepResult(as, g, "clear") EXCEPT !.emit = <<Msg("Can I help you with anything?", <<>>)>>]
    ELSE YieldClear(as, ctx, g, TRUE, FALSE)

\* Chat.gz_gif
GzGifStep(as, ctx, g, oc) ==
    IF g.pc = "start"
    THEN [StepResult(as, g, "gif") EXCEPT !.emit = <<Msg("RAWR!", <<>>)>>]
    ELSE IF g.pc = "gif"
    THEN LET calls == <<Call("urlopen(GZ_GIF_URL)", <<>>, oc)>> IN
         IF oc = "raise" THEN Raised(as, g, calls)
         ELSE [StepResult(as, g, "clear")
               EXCEPT !.emit = <<Msg("gif url", <<>>)>>, !.calls = calls]
    ELSE YieldClear(as, ctx, g, TRUE, FALSE)

\* kwargs.get(k) is truthy
Truthy(kw, k) ==
    Has(kw, k) /\ (IF k \in {"person", "job_title", "google_groups"}
                   THEN kw[k] # <<>> ELSE kw[k] # "")

\* Chat.invite_to_trello
TrelloStep(as, ctx, g, oc) ==
    LET kw == g.kw IN
    IF g.pc = "start"
    THEN IF ~Truthy(kw, "person")
         THEN Prompt(as, ctx, g, [step |-> "name"], Msg("What is the user's full name?", <<>>))
         ELSE IF ~Truthy(kw, "email")
         THEN Prompt(as, ctx, g, [step |-> "email"],
                     Msg("What is {}'s {} email address?", <<kw["person"]>>))
         ELSE LET calls == <<Call("trello.invite_to_trello", <<kw["email"]>> \o kw["person"], oc)>> IN
              IF oc = "raise" THEN Raised(as, g, calls)
              ELSE [StepResult(as, [g EXCEPT !.success = (oc = "ok")], "clear")
                    EXCEPT !.calls = calls,
                           !.emit = IF oc = "ok"
                                    THEN <<Msg("I have invited {} to join *{}* in Trello!", <<<<kw["email"]>>>>)>>
                                    ELSE <<Msg("Huh, that didn't work, check out the logs?", <<>>)>>]
    ELSE YieldClear(as, ctx, g, g.success, TRUE)

\* GitHubAdmin.invite_to_github(self, username), called with the positional
\* arguments args: any other number of arguments is a TypeError raised before
\* the body runs.  The body issues one PUT, for the team the instance was
\* built with; status is how that request ends ("ok" is HTTP 200).
GitHubAdminInviteToGithub(self, args, status) ==
    IF Len(args) # 1
    THEN [raised |-> TRUE, requests |-> <<>>, success |-> FALSE]
    ELSE [raised |-> (status = "raise"),
          requests |-> <<[team |-> self.github_team, username |-> args[1]]>>,
          success |-> (status = "ok")]

\* The arguments Chat.invite_to_github passes to it: the username and the
\* team ids configured for the dev role
GithubCallArgs(kw) == <<kw["username"], GITHUB_DEV_ROLES[kw["dev_role"]]>>

\* Chat.invite_to_github
GithubStep(as, ctx, g, oc) ==
    LET kw == g.kw IN
    IF g.pc = "start"
    THEN IF ~Truthy(kw, "username")
         THEN Prompt(as, ctx, g, [step |-> "username", regexp_tokenize |-> TRUE],
                     Msg("What is the GitHub username?", <<>>))
         ELSE IF ~Truthy(kw, "dev_role")
         THEN Prompt(as, ctx, g, [step |-> "dev_role", regexp_tokenize |-> TRUE],
                     Msg("What will be the user's dev role on our team? Choose from: '{}'.", <<>>))
         ELSE IF kw["dev_role"] \notin DOMAIN GITHUB_DEV_ROLES
         THEN Raised(as, g, <<>>)
         ELSE LET calls == <<Call("github.invite_to_github", <<kw["username"], kw["dev_role"]>>, oc)>> IN
              IF oc = "raise" THEN Raised(as, g, calls)
              ELSE [StepResult(as, [g EXCEPT !.success = (oc = "ok")], "clear")
                    EXCEPT !.calls = calls,
                           !.emit = IF oc = "ok"
                                    THEN <<Msg("I have invited {} to join *{}* in GitHub!", <<<<kw["username"]>>>>)>>
                                    ELSE <<Msg("Huh, I couldn't add {} to *{}* in GitHub.", <<<<kw["username"]>>>>)>>]
    ELSE YieldClear(as, ctx, g, g.success, TRUE)

\* Chat.invite_to_abacus
AbacusStep(as, ctx, g, oc) ==
    LET kw == g.kw IN
    IF g.pc = "start"
    THEN IF ~Truthy(kw, "email")
         THEN Prompt(as, ctx, g, [step |-> "email"],
                     Msg("What is the new user's {} email address?", <<>>))
         ELSE LET calls == <<Call("abacus.invite_to_abacus", <<kw["email"]>>, oc)>> IN
              IF oc = "raise" THEN Raised(as, g, calls)
              ELSE [StepResult(as, [g EXCEPT !.success = (oc = "ok")], "clear")
                    EXCEPT !.calls = calls,
                           !.emit = IF oc = "ok"
                                    THEN <<Msg("I have invited {} to join Abacus!", <<<<kw["email"]>>>>)>>
                                    ELSE <<Msg("Huh, that didn't work, check out the logs?", <<>>)>>]
    ELSE YieldClear(as, ctx, g, g.success, TRUE)

\* kwargs.get('person', '').split(maxsplit=1): the given name, and the
\* family name (the remaining words), each None when there is none
GivenName(kw) == IF Truthy(kw, "person") THEN kw["person"][1] ELSE None

HasFamilyName(kw) == Truthy(kw, "person") /\ Len(kw["person"]) >= 2

FamilyName(kw) == Tail(kw["person"])

\* The slots asked for in another order: the email before the name
GoogleMissingEmailFirst(kw) ==
    IF ~Truthy(kw, "email") THEN "email"
    ELSE IF ~HasFamilyName(kw) THEN "name"
    ELSE IF ~Truthy(kw, "job_title") THEN "title"
    ELSE None

\* The first slot create_google_account finds missing, or None
GoogleMissing(kw) ==
    IF ~HasFamilyName(kw) THEN "name"
    ELSE IF ~Truthy(kw, "email") THEN "email"
    ELSE IF ~Truthy(kw, "job_title") THEN "title"
    ELSE None

\* A test that takes nobody for a developer
NeverDeveloper(kw) == FALSE

\* google_groups and self.config.GOOGLE_GROUPS['GDEV'] == google_groups
IsDeveloper(kw) == Truthy(kw, "google_groups") /\ kw["google_groups"] = GOOGLE_GROUPS["GDEV"]

\* kwargs.get('username', given_name.lower())
GoogleUsernameFromName(kw) == Lower(GivenName(kw))

GoogleUsername(kw) == IF Has(kw, "username") THEN kw["username"] ELSE Lower(GivenName(kw))

\* Chat.create_google_account, with GoogleAdmin.create_user, itself a
\* generator the method iterates over: the user is inserted before its first
\* yield, the group and calendar inserts run before its second, the welcome
\* mail is sent before it returns.  ', '.join(groups) raises TypeError when
\* no google_groups were passed.
GoogleStep(as, ctx, g, oc) ==
    LET kw == g.kw
        missing == GoogleMissing(kw)
        username == GoogleUsername(kw)
    IN  IF g.pc = "start"
        THEN IF missing = "name"
             THEN Prompt(as, ctx, g, [step |-> "name"],
                         Msg("What is the employee's full name (Capitalized First & Last)?", <<>>))
             ELSE IF missing = "email"
             THEN Prompt(as, ctx, g, [step |-> "email"],
                         Msg("What is a personal email address for {}?", <<<<GivenName(kw)>>>>))
             ELSE IF missing = "title"
             THEN Prompt(as, ctx, g, [step |-> "title"],
                         Msg("What is {}'s job title?", <<<<GivenName(kw)>>>>))
             ELSE IF IsDeveloper(kw)
             THEN Prompt(as, ctx, g, [step |-> "dev_role", regexp_tokenize |-> TRUE],
                         Msg("I see we're adding a developer! What team will they be on?", <<>>))
             ELSE [StepResult(as, g, "check")
                   EXCEPT !.emit = <<Msg("Okay, let me check if '{}' is an available Google username.",
                                         <<<<username>>>>)>>]
        ELSE IF g.pc = "check"
        THEN LET calls == <<Call("google.is_username_available", <<username>>, oc)>> IN
             IF oc = "raise" THEN Raised(as, g, calls)
             ELSE IF oc = "fail"
             THEN [Prompt(as, ctx, g, [step |-> "username", regexp_tokenize |-> TRUE],
                          Msg("Aw nuts, that name is taken.", <<>>))
                   EXCEPT !.calls = calls]
             ELSE [StepResult(as, g, "create")
                   EXCEPT !.calls = calls,
                          !.emit = <<Msg("We're good to go! Creating the new account now.", <<>>)>>]
        ELSE IF g.pc = "create"
        THEN LET calls == <<Call("google.create_user", <<username, kw["email"]>>, oc)>> IN
             IF oc = "raise" \/ ~Has(kw, "google_groups") THEN Raised(as, g, calls)
             ELSE [StepResult(as, g, "groups")
                   EXCEPT !.calls = calls,
                          !.emit = <<Msg("User created! Going to add them to the following groups now: *{}*",
                                         <<kw["google_groups"]>>)>>]
        ELSE IF g.pc = "groups"
        THEN LET calls == <<Call("google.members.insert", kw["google_groups"], oc)>> IN
             IF oc = "raise" THEN Raised(as, g, calls)
             ELSE [StepResult(as, g, "mail")
                   EXCEPT !.calls = calls,
                          !.emit = <<Msg("Sending them a welcome email to their personal address with login credentials to the new account.", <<>>)>>]
        ELSE IF g.pc = "mail"
        THEN LET calls == <<Call("google.send_message", <<kw["email"]>>, oc)>> IN
             IF oc = "raise" THEN Raised(as, g, calls)
             ELSE [StepResult(as, g, "clear")
                   EXCEPT !.calls = calls,
                          !.emit = <<Msg("Google account creation complete! What's next?", <<>>)>>]
        ELSE YieldClear(as, ctx, g, TRUE, TRUE)

\* The external calls that perform an action, as opposed to the username
\* query and the gif download
MutatingCalls ==
    {"google.create_user", "trello.invite_to_trello", "github.invite_to_github",
     "abacus.invite_to_abacus"}

\* Whether the step a generator is about to run calls an external handler
CallsExternal(g) ==
    \/ g.fn = "gz_gif" /\ g.pc = "gif"
    \/ g.fn = "create_google_account" /\ g.pc \in {"check", "create", "groups", "mail"}
    \/ g.fn = "invite_to_trello" /\ g.pc = "start"
          /\ Truthy(g.kw, "person") /\ Truthy(g.kw, "email")
    \/ g.fn = "invite_to_github" /\ g.pc = "start"
          /\ Truthy(g.kw, "username") /\ Truthy(g.kw, "dev_role")
          /\ g.kw["dev_role"] \in DOMAIN GITHUB_DEV_ROLES
    \/ g.fn = "invite_to_abacus" /\ g.pc = "start" /\ Truthy(g.kw, "email")

\* The outcomes the external call of the step can have: the invites report
\* success or failure or raise; the username query answers available ("ok")
\* or taken ("fail"); the other Google calls and the download return or raise.
Outcomes(g) ==
    IF ~CallsExternal(g) THEN {"ok"}
    ELSE IF g.fn \in InviteActions \/ g.pc = "check" THEN {"ok", "fail", "raise"}
    ELSE {"ok", "raise"}

\* next(g) for every method but greet
GenStep(as, ctx, g, oc) ==
    CASE g.fn = "cancel" -> CancelStep(as, ctx, g, oc)
      [] g.fn = "gz_gif" -> GzGifStep(as, ctx, g, oc)
      [] g.fn = "create_google_account" -> GoogleStep(as, ctx, g, oc)
      [] g.fn = "invite_to_trello" -> TrelloStep(as, ctx, g, oc)
      [] g.fn = "invite_to_github" -> GithubStep(as, ctx, g, oc)
      [] g.fn = "invite_to_abacus" -> AbacusStep(as, ctx, g, oc)

(***************************************************************************)
(* requires_admin and Chat.respond.                                        *)
(***************************************************************************)
\* The methods wrapped by @requires_admin
RequiresAdmin(action) == action \in MutatingActions

\* A gate that never checks the admin flag
AdminGateOpen(ctx) == IF CtxHasName(ctx) THEN "granted" ELSE "raise"

\* wrapped_fxn: "raise" (the log line reads the user's name), "denied" (the
\* empty tuple is returned) or "granted" (the generator is returned)
AdminGate(ctx) ==
    IF ctx["admin"]
    THEN IF CtxHasName(ctx) THEN "granted" ELSE "raise"
    ELSE "denied"

\* The tokens of the input: action_state.get('regexp_tokenize') chooses the
\* alphanumeric regular expression over the Twitter tokenizer
Tokenize(input, st) ==
    IF Has(st, "regexp_tokenize") /\ st["regexp_tokenize"]
    THEN RegexpTokenize(input) ELSE TweetTokenize(input)

\* self.tagger.tag(tokens): the pickled tagger is external and may raise
TaggerRaises(tokens) == \E i \in DOMAIN tokens : tokens[i].word = Untaggable

\* What respond returns, and what it has done: resp is "fallback" (the
\* one-message tuple of the except branch), "empty" (the empty tuple) or
\* "generator" (g, not yet started).
RespondResult(as, ctx, resp, g, action, stage) ==
    [as |-> as, context |-> ctx, resp |-> resp, g |-> g, action |-> action, stage |-> stage]

RespondCall(as, old_context, input, context) ==
    LET sc == SetContext(context, old_context)
        ctx == sc.context
        Caught(as2, stage) == RespondResult(as2, ctx, "fallback", NoGen, None, stage)
    IN  IF sc.raised THEN Caught(as, "context")
        ELSE
        LET id == ctx["user"]["id"]
            st == GetActionState(as, id)
            tokens == Tokenize(input, st)
        IN  IF TaggerRaises(tokens) THEN Caught(as, "tag")
            ELSE IF GenerateInDictRaises(st) THEN Caught(as, "chunk")
            ELSE
            LET da == DetermineAction(Parse(tokens, st), st, as, id) IN
            IF da.raised THEN Caught(da.as, "resolve")
            ELSE IF da.action = None
            THEN RespondResult(da.as, ctx, "empty", NoGen, None, "done")
            ELSE IF RequiresAdmin(da.action) /\ AdminGate(ctx) = "raise"
            THEN [Caught(da.as, "gate") EXCEPT !.action = da.action]
            ELSE IF RequiresAdmin(da.action) /\ AdminGate(ctx) = "denied"
            THEN RespondResult(da.as, ctx, "empty", NoGen, da.action, "denied")
            ELSE RespondResult(da.as, ctx, "generator", Gen(da.action, da.kwargs),
                               da.action, "done")

(***************************************************************************)
(* The inputs of the model: texts as sequences of tagged words.            *)
(***************************************************************************)
\* The tag the tagger gives a word unless a text says otherwise
DefaultTag(w) ==
    IF w \in {"create", "add", "invite"} THEN "VB"
    ELSE IF w \in {"Bill", "Tester"} THEN "NP"
    ELSE "NN"

T(w) == Tok(w, DefaultTag(w))

Text(ws) == [i \in 1..Len(ws) |-> T(ws[i])]

Texts ==
    { Text(ws) : ws \in {
        <<"the">>, <<".">>, <<"hi">>, <<"gz">>, <<"hi", "gz">>,
        <<"stop">>, <<"Nevermind", ".">>,
        <<"Bill">>, <<"Bill", "Tester">>, <<"b@x.co">>,
        <<"designer">>, <<"software">>, <<"backend">>, <<"bob">>,
        <<"create", "google">>,
        <<"create", "google", "Bill", "Tester", "b@x.co">>,
        <<"create", "google", "Bill", "Tester", "b@x.co", "title", "software">>,
        <<"create", "google", "Bill", "Tester", "b@x.co", "title", "designer">>,
        <<"create", "google", "Bill", "Tester", "b@x.co", "title", "software", "the", "backend">>,
        <<"invite", "trello">>,
        <<"add", "Bill", "Tester", "b@x.co", "trello">>,
        <<"invite", SlackEmail, "trello">>,
        <<"invite", "github">>,
        <<"add", "@bob", "github", "backend">>,
        <<"invite", "abacus">>,
        <<"add", "b@x.co", "abacus">>,
        <<Untaggable>> } }

(***************************************************************************)
(* The state: the Chat instance (action_state, context) and the turn in    *)
(* progress as the caller sees it.  A turn is one respond call followed by *)
(* the caller's iteration over what it returned.                           *)
(***************************************************************************)
VARIABLES
    action_state,   \* Chat.action_state: user id -> that user's entry
    context,        \* Chat.context
    turn,           \* the last respond call and the iteration over its result
    said,           \* the inputs of the respond calls so far, where recorded
    parked,         \* an earlier turn whose generator the caller still holds
    scan            \* one call of GZChunker.parse, token by token

vars == <<action_state, context, turn, said, parked, scan>>

\* The turns of one behaviour
MaxTurns == 3

\* turn.status: "live" while the returned generator is suspended, "done"
\* when the caller has all the output, "raised" when the iteration raised.
\* id: the user id of the turn's context (None when it has none); pre: that
\* user's entry before the call, had_entry: whether there was one.
IdleTurn ==
    [n |-> 0, status |-> "done", id |-> None, has_name |-> FALSE,
     had_entry |-> FALSE, pre |-> EmptyDict,
     first_cancel |-> FALSE, trigger |-> FALSE,
     resp |-> "empty", stage |-> "done", action |-> None, g |-> NoGen,
     out |-> <<>>, calls |-> <<>>, popped |-> FALSE, stepset |-> None]

\* No call of GZChunker.parse is followed.  st: the action_state argument;
\* text: the tokens of tagged_text read so far; iobs and d: iobs and in_dict;
\* status: "scanning" in the loop, "stopped" after the break, "raised" when
\* _generate_in_dict raised.
NoScan == [st |-> EmptyDict, text |-> <<>>, iobs |-> <<>>, d |-> NoFlags, status |-> "idle"]

\* No turn is parked.  touched: the users whose entries the steps of the
\* parked generator changed.
NoParked == [status |-> "done", id |-> None, g |-> NoGen, touched |-> {}]

Init ==
    /\ action_state = EmptyDict
    /\ context = EmptyDict
    /\ turn = IdleTurn
    /\ said = <<>>
    /\ parked = NoParked
    /\ scan = NoScan

\* The user id a context names
ContextId(c) ==
    IF c = NoContext THEN "text"
    ELSE IF CtxHasId(c) THEN c["user"]["id"]
    ELSE None

\* Whether the text, tokenized for the state st, holds a trigger span
HasTrigger(input, st) ==
    LET spans == Subtrees(Parse(Tokenize(input, st), st))
    IN  \E i \in DOMAIN spans : IsTriggerLabel(spans[i].label)

\* Whether the first token is a cancel keyword
FirstIsCancel(tokens) == tokens # <<>> /\ Lower(tokens[1].word) \in cancel_actions

\* One respond call, of at most bound in a run
RespondWithin(bound, input, c) ==
    LET r == RespondCall(action_state, context, input, c)
        id == ContextId(c)
        st == IF id = None THEN EmptyDict ELSE GetActionState(action_state, id)
    IN  /\ turn.n < bound
        /\ UNCHANGED scan
        /\ action_state' = r.as
        /\ context' = r.context
        /\ turn' = [n |-> turn.n + 1,
                    status |-> IF r.resp = "generator" THEN "live" ELSE "done",
                    id |-> id,
                    has_name |-> (c = NoContext \/ CtxHasName(c)),
                    had_entry |-> (id # None /\ Has(action_state, id)),
                    pre |-> st,
                    first_cancel |-> FirstIsCancel(Tokenize(input, st)),
                    trigger |-> (id # None /\ ~GenerateInDictRaises(st) /\ HasTrigger(input, st)),
                    resp |-> r.resp, stage |-> r.stage, action |-> r.action, g |-> r.g,
                    out |-> IF r.resp = "fallback" THEN <<Fallback>> ELSE <<>>,
                    calls |-> <<>>, popped |-> FALSE, stepset |-> None]

\* One respond call
Respond(input, c) == RespondWithin(MaxTurns, input, c)

\* The turn after one step of its generator with result r
AfterStep(r) ==
    [turn EXCEPT !.g = r.g,
                 !.status = IF r.raised THEN "raised"
                            ELSE IF r.g.pc = "end" THEN "done" ELSE "live",
                 !.out = @ \o r.emit,
                 !.calls = @ \o r.calls,
                 !.popped = @ \/ r.popped,
                 !.stepset = IF r.stepset # None THEN r.stepset ELSE @]

\* The caller takes the next response of the turn's generator
Consume(oc) ==
    /\ turn.status = "live"
    /\ turn.g.fn # "greet"
    /\ oc \in Outcomes(turn.g)
    /\ LET r == GenStep(action_state, context, turn.g, oc) IN
       /\ action_state' = r.as
       /\ turn' = AfterStep(r)
    /\ UNCHANGED <<context, scan>>

\* The same for greet, whose first response is a random greeting
ConsumeGreet(word) ==
    /\ turn.status = "live"
    /\ turn.g.fn = "greet"
    /\ turn.g.pc = "start" \/ word = "hi"
    /\ LET r == GreetStep(action_state, context, turn.g, word) IN
       /\ action_state' = r.as
       /\ turn' = AfterStep(r)
    /\ UNCHANGED <<context, scan>>

\* Turns in sequence: the caller iterates over all the responses of a turn
\* before the next respond call.
Next ==
    \/ \E input \in Texts, c \in Contexts :
          turn.status # "live" /\ Respond(input, c) /\ UNCHANGED <<said, parked>>
    \/ \E oc \in {"ok", "fail", "raise"} : Consume(oc) /\ UNCHANGED <<said, parked>>
    \/ \E word \in greetings : ConsumeGreet(word) /\ UNCHANGED <<said, parked>>

Spec == Init /\ [][Next]_vars

(***************************************************************************)
(* Dialogues: the same turns in sequence, over fewer inputs, with the text *)
(* of every respond call recorded in said.  The users are the admin of the *)
(* text platform (context None) and one user who is not an admin.          *)
(***************************************************************************)
DialogueTexts ==
    { Text(ws) : ws \in {
        <<"the">>, <<"hi">>, <<"gz">>, <<"Nevermind", ".">>,
        <<"Bill", "Tester">>, <<"b@x.co">>, <<"designer">>, <<"backend">>, <<"bob">>,
        <<"create", "google">>,
        <<"create", "google", "Bill", "Tester", "b@x.co", "title", "software">>,
        <<"create", "google", "Bill", "Tester", "b@x.co", "title", "designer">>,
        <<"create", "google", "Bill", "Tester", "b@x.co", "title", "software", "the", "backend">>,
        <<"invite", "github">>,
        <<"add", "Bill", "Tester", "b@x.co", "trello">>,
        <<"add", "@bob", "github", "backend">>,
        <<"add", "b@x.co", "abacus">> } }

DialogueContexts == {NoContext, FullContext("U01234567")}

\* One respond call, its text recorded
Say(input, c) ==
    /\ turn.status # "live"
    /\ Respond(input, c)
    /\ said' = Append(said, input)
    /\ UNCHANGED parked

DialogueNext ==
    \/ \E input \in DialogueTexts, c \in DialogueContexts : Say(input, c)
    \/ \E oc \in {"ok", "fail", "raise"} : Consume(oc) /\ UNCHANGED <<said, parked>>
    \/ \E word \in greetings : ConsumeGreet(word) /\ UNCHANGED <<said, parked>>

DialogueSpec == Init /\ [][DialogueNext]_vars

(***************************************************************************)
(* Interleaved turns of two users on the one Chat instance: a user's       *)
(* respond call may start while the caller still holds the suspended       *)
(* generator of the other user's turn, which it resumes later.  A resumed  *)
(* generator reads self.context and self.action_state as they are then.    *)
(***************************************************************************)
InterleavedTexts ==
    { Text(ws) : ws \in {
        <<"the">>, <<"Nevermind", ".">>, <<"Bill", "Tester">>, <<"b@x.co">>,
        <<"invite", "trello">>,
        <<"add", "Bill", "Tester", "b@x.co", "trello">>,
        <<"create", "google">>,
        <<"create", "google", "Bill", "Tester", "b@x.co", "title", "designer">> } }

\* The users whose entries differ between as1 and as2
Touched(as1, as2) ==
    {id \in Users : Has(as1, id) # Has(as2, id)
                    \/ GetActionState(as1, id) # GetActionState(as2, id)}

\* A respond call.  It may come from another user while the generator of
\* the turn before is suspended: the caller keeps that generator.
Interleave(input, c) ==
    /\ Respond(input, c)
    /\ IF turn.status = "live"
       THEN /\ parked.status # "live"
            /\ ContextId(c) # turn.id
            /\ parked' = [status |-> "live", id |-> turn.id, g |-> turn.g, touched |-> {}]
       ELSE UNCHANGED parked
    /\ UNCHANGED said

\* The caller takes the next response of the generator it kept
Resume(oc) ==
    /\ parked.status = "live"
    /\ oc \in Outcomes(parked.g)
    /\ LET r == GenStep(action_state, context, parked.g, oc) IN
       /\ action_state' = r.as
       /\ parked' = [status |-> IF r.raised THEN "raised"
                                ELSE IF r.g.pc = "end" THEN "done" ELSE "live",
                     id |-> parked.id,
                     g |-> r.g,
                     touched |-> parked.touched \cup Touched(action_state, r.as)]
    /\ UNCHANGED <<context, turn, said, scan>>

InterleavedNext ==
    \/ \E input \in InterleavedTexts, c \in DialogueContexts : Interleave(input, c)
    \/ \E oc \in {"ok", "fail", "raise"} : Consume(oc) /\ UNCHANGED <<said, parked>>
    \/ \E oc \in {"ok", "fail", "raise"} : Resume(oc)

InterleavedSpec == Init /\ [][InterleavedNext]_vars

(***************************************************************************)
(* Slot filling: the admin has said "create google" and has been asked for *)
(* the name; the next turns supply the name, the email and the title, the  *)
(* title bare or after the word title, in any order and with repeats.      *)
(* turn.n counts the turns from there.                                     *)
(***************************************************************************)
NameText == Text(<<"Bill", "Tester">>)

EmailText == Text(<<"b@x.co">>)

BareTitleTexts == {Text(<<"designer">>), Text(<<"software">>)}

KeywordTitleTexts == {Text(<<"title", "designer">>), Text(<<"title", "software">>)}

SlotTexts == {NameText, EmailText} \cup BareTitleTexts \cup KeywordTitleTexts

\* The Chat instance after the admin's "create google" and its one question
SlotStart ==
    [as |-> [text |-> [action |-> "create_google_account", kwargs |-> EmptyDict,
                       step |-> "name"]],
     context |-> [user |-> [id |-> "text", name |-> "text"], admin |-> TRUE]]

SlotInit ==
    /\ action_state = SlotStart.as
    /\ context = SlotStart.context
    /\ turn = IdleTurn
    /\ said = <<>>
    /\ parked = NoParked
    /\ scan = NoScan

SlotNext ==
    \/ \E input \in SlotTexts : Say(input, NoContext)
    \/ \E oc \in {"ok", "fail", "raise"} : Consume(oc) /\ UNCHANGED <<said, parked>>

SlotSpec == SlotInit /\ [][SlotNext]_vars

(***************************************************************************)
(* Answered prompts: the admin starts one of the four mutating actions     *)
(* with a trigger and no entity and then answers every question with a     *)
(* value for the slot asked.  A username entered on request is available.  *)
(***************************************************************************)
MaxAnswerTurns == 6

TriggerTexts ==
    { Text(ws) : ws \in { <<"create", "google">>, <<"invite", "trello">>,
                          <<"invite", "github">>, <<"invite", "abacus">> } }

Steps == {"name", "email", "title", "dev_role", "username"}

\* The answers to the question of a step
AnswersTo(step) ==
    CASE step = "name" -> {NameText}
      [] step = "email" -> {EmailText, Text(<<SlackEmail>>)}
      [] step = "title" -> BareTitleTexts
      [] step = "dev_role" -> {Text(<<"backend">>)}
      [] step = "username" -> {Text(<<"bob">>)}
      [] OTHER -> {}

\* What the admin says next: an answer while a question is open, else a trigger
NextInputs ==
    LET st == GetActionState(action_state, "text")
    IN  IF Has(st, "step") THEN AnswersTo(st["step"]) ELSE TriggerTexts

\* The admin's next respond call
Converse(input) ==
    /\ turn.status # "live"
    /\ input \in NextInputs
    /\ RespondWithin(MaxAnswerTurns, input, NoContext)
    /\ said' = Append(said, input)
    /\ UNCHANGED parked

\* The caller takes the next response; the username entered on request is free
Deliver(oc) ==
    /\ (Get(turn.pre, "step") = "username" /\ turn.g.pc = "check") => oc = "ok"
    /\ Consume(oc)
    /\ UNCHANGED <<said, parked>>

AnswerNext ==
    \/ \E input \in TriggerTexts \cup UNION {AnswersTo(s) : s \in Steps} : Converse(input)
    \/ \E oc \in {"ok", "fail", "raise"} : Deliver(oc)

AnswerSpec == Init /\ [][AnswerNext]_vars

(***************************************************************************)
(* The chunker alone: one call of GZChunker.parse for any entry a user can *)
(* have and any text of up to MaxTokens tagged tokens, followed token by   *)
(* token through its while loop.                                           *)
(***************************************************************************)
MaxTokens == 3

ChunkTokens ==
    { T("gz"), T("hi"), T("b@x.co"), T("@bob"), T("create"), T("add"),
      Tok("add", "NN"), T("invite"), T("google"), T("title"), T("trello"),
      T("stop"), T("Nevermind"), T("Bill"), T("Tester"), Tok("Tester", "NN"),
      T("software"), T("designer"), T("backend"), T("the") }

\* The entries a user can have when respond calls the chunker
PriorStates ==
    { EmptyDict,
      [action |-> None, kwargs |-> EmptyDict],
      [action |-> "create_google_account", kwargs |-> EmptyDict],
      [action |-> "create_google_account", kwargs |-> EmptyDict, step |-> "name"],
      [action |-> "create_google_account", kwargs |-> EmptyDict, step |-> "title"],
      [action |-> "create_google_account", kwargs |-> EmptyDict, step |-> "dev_role",
       regexp_tokenize |-> TRUE],
      [action |-> "invite_to_trello", kwargs |-> EmptyDict],
      [action |-> "invite_to_trello", kwargs |-> EmptyDict, step |-> "name"],
      [action |-> "invite_to_github", kwargs |-> EmptyDict, step |-> "username",
       regexp_tokenize |-> TRUE],
      [action |-> "invite_to_abacus", kwargs |-> EmptyDict, step |-> "email"] }

\* iobs = [], in_dict = self._generate_in_dict(action_state)
StartScan(st) ==
    IF GenerateInDictRaises(st)
    THEN [st |-> st, text |-> <<>>, iobs |-> <<>>, d |-> NoFlags, status |-> "raised"]
    ELSE [st |-> st, text |-> <<>>, iobs |-> <<>>, d |-> GenerateInDict(st),
          status |-> "scanning"]

\* self.chunker.parse(tagged_text, action_state) is called
CallParse(st) ==
    /\ scan.status = "idle"
    /\ scan' = StartScan(st)
    /\ UNCHANGED <<action_state, context, turn, said, parked>>

\* One pass of the while loop, for the next token of tagged_text
ScanToken(tok) ==
    /\ scan.status = "scanning"
    /\ Len(scan.text) < MaxTokens
    /\ LET r == ChunkToken(scan.d, tok, scan.iobs = <<>>) IN
       scan' = [scan EXCEPT !.text = Append(@, tok),
                            !.iobs = Append(@, r.iob),
                            !.d = r.d,
                            !.status = IF r.stop THEN "stopped" ELSE "scanning"]
    /\ UNCHANGED <<action_state, context, turn, said, parked>>

\* A token of tagged_text after the one at which the loop broke
SkipToken(tok) ==
    /\ scan.status = "stopped"
    /\ Len(scan.text) < MaxTokens
    /\ scan' = [scan EXCEPT !.text = Append(@, tok)]
    /\ UNCHANGED <<action_state, context, turn, said, parked>>

ChunkNext ==
    \/ \E st \in PriorStates : CallParse(st)
    \/ \E tok \in ChunkTokens : ScanToken(tok)
    \/ \E tok \in ChunkTokens : SkipToken(tok)

ChunkSpec == Init /\ [][ChunkNext]_vars

(***************************************************************************)
(* Resolution: turns whose texts hold several spans that bear on the       *)
(* action (a greeting next to a trigger, two triggers) or on the groups (a *)
(* title of two tracks, a dev role next to a title), with the text of      *)
(* every respond call recorded in said.                                    *)
(***************************************************************************)
ResolveTexts ==
    { Text(ws) : ws \in {
        <<"the">>, <<"hi">>, <<"gz">>, <<"backend">>,
        <<"Bill", "Tester", "b@x.co">>,
        <<"create", "google">>,
        <<"create", "google", "hi">>,
        <<"hi", "create", "google">>,
        <<"invite", "trello">>,
        <<"create", "google", "invite", "trello">>,
        <<"title", "designer">>,
        <<"title", "software", "designer">>,
        <<"title", "designer", "the", "backend">>,
        <<"title", "software", "the", "backend">> } }

ResolveNext ==
    \/ \E input \in ResolveTexts, c \in DialogueContexts : Say(input, c)
    \/ \E oc \in {"ok", "fail", "raise"} : Consume(oc) /\ UNCHANGED <<said, parked>>
    \/ \E word \in greetings : ConsumeGreet(word) /\ UNCHANGED <<said, parked>>

ResolveSpec == Init /\ [][ResolveNext]_vars

(***************************************************************************)
(* Concurrent respond calls on the one Chat instance.  self.context is an  *)
(* attribute of the instance and respond takes no lock: between the        *)
(* _set_context of one call and the rest of its body the _set_context of   *)
(* another call can run, and the rest of the body (_get_action_state, the  *)
(* gate, every handler) then reads the context that call left.             *)
(***************************************************************************)
RacedTexts ==
    { Text(ws) : ws \in {
        <<"the">>, <<"Bill", "Tester">>, <<"b@x.co">>,
        <<"invite", "trello">>,
        <<"add", "Bill", "Tester", "b@x.co", "trello">>,
        <<"create", "google">> } }

\* A respond call with the context c; seen is the context argument of the
\* _set_context that ran last before the call read self.context: c itself
\* when no other call came between.
RespondRaced(input, c, seen) ==
    LET own == SetContext(c, context)
        r == RespondCall(action_state, own.context, input, seen)
        id == ContextId(c)
        st == GetActionState(action_state, id)
    IN  /\ turn.n < MaxTurns
        /\ turn.status # "live"
        /\ ~own.raised
        /\ action_state' = r.as
        /\ context' = r.context
        /\ turn' = [n |-> turn.n + 1,
                    status |-> IF r.resp = "generator" THEN "live" ELSE "done",
                    id |-> id,
                    has_name |-> (c = NoContext \/ CtxHasName(c)),
                    had_entry |-> Has(action_state, id),
                    pre |-> st,
                    first_cancel |-> FirstIsCancel(Tokenize(input, st)),
                    trigger |-> (~GenerateInDictRaises(st) /\ HasTrigger(input, st)),
                    resp |-> r.resp, stage |-> r.stage, action |-> r.action, g |-> r.g,
                    out |-> IF r.resp = "fallback" THEN <<Fallback>> ELSE <<>>,
                    calls |-> <<>>, popped |-> FALSE, stepset |-> None]
        /\ said' = Append(said, input)
        /\ UNCHANGED <<parked, scan>>

ConcurrentNext ==
    \/ \E input \in RacedTexts, c \in DialogueContexts, seen \in DialogueContexts :
          RespondRaced(input, c, seen)
    \/ \E oc \in {"ok", "fail", "raise"} : Consume(oc) /\ UNCHANGED <<said, parked>>

ConcurrentSpec == Init /\ [][ConcurrentNext]_vars

(***************************************************************************)
(* Dialogues of the admin in which a GitHub invitation follows, or is       *)
(* started next to, the creation of a Google account, so that the kwargs   *)
(* of the one are carried into the other.                                  *)
(***************************************************************************)
CarriedTexts ==
    { Text(ws) : ws \in {
        <<"the">>, <<"bob">>, <<"backend">>, <<"frontend">>,
        <<"invite", "github">>,
        <<"add", "@bob", "github">>,
        <<"create", "google", "title", "software", "the", "add", "@bob", "github">> } }

CarriedNext ==
    \/ \E input \in CarriedTexts : Say(input, NoContext)
    \/ \E oc \in {"ok", "fail", "raise"} : Consume(oc) /\ UNCHANGED <<said, parked>>

CarriedSpec == Init /\ [][CarriedNext]_vars

(***************************************************************************)
(* Properties.  A turn is over when the caller holds all of its output:    *)
(* respond returned a tuple, or the iteration over the generator ended or  *)
(* raised.                                                                 *)
(***************************************************************************)
TurnOver == turn.n > 0 /\ turn.status # "live"

\* The entry of the turn's user now, as against before the turn
EntryUnchanged ==
    /\ Has(action_state, turn.id) = turn.had_entry
    /\ GetActionState(action_state, turn.id) = turn.pre

NonAdminMutatingTurn ==
    /\ turn.n > 0
    /\ turn.id # None
    /\ turn.id \notin ADMINS
    /\ turn.action \in MutatingActions

IsCompleted(u) == u.kind = "completed"

MadeCall(apis, outcomes) ==
    \E i \in DOMAIN turn.calls :
        turn.calls[i].api \in apis /\ turn.calls[i].outcome \in outcomes

\* C1: a turn of a user who is not an admin that resolves to a mutating
\* action returns the empty sequence and calls no external handler.
C1_NonAdminDenied ==
    NonAdminMutatingTurn =>
        /\ turn.resp = "empty"
        /\ turn.status = "done"
        /\ turn.out = <<>>
        /\ turn.calls = <<>>

C1_Witness ==
    /\ NonAdminMutatingTurn
    /\ turn.action = "invite_to_trello"
    /\ turn.resp = "empty"

\* C2: a turn of a user who is not an admin that resolves to a mutating
\* action leaves that user's entry of action_state as it was: none is
\* created, and no action, step or kwargs is written.
C2_NonAdminStateUnchanged == (NonAdminMutatingTurn /\ TurnOver) => EntryUnchanged

\* C3 as claimed: for a user with a pending mutating action at any step, a
\* turn whose first token is a cancel keyword resolves to cancel, puts out
\* the cancellation message and a completion record, and removes the entry.
PendingAtStep ==
    /\ turn.n > 0
    /\ turn.id # None
    /\ Get(turn.pre, "action") \in MutatingActions
    /\ Get(turn.pre, "step") \in {"name", "email", "title", "dev_role", "username"}

CancelRecord == Completed(FALSE, "Command completed.", <<>>)

CancelBlindStep ==
    \/ turn.pre["action"] = "create_google_account" /\ turn.pre["step"] = "title"
    \/ turn.pre["action"] \in {"create_google_account", "invite_to_github"}
          /\ turn.pre["step"] = "username"

TurnFaulted == turn.n > 0 /\ (turn.resp = "fallback" \/ turn.status = "raised")

C4_FaultsGiveFallback ==
    TurnFaulted => (turn.status = "done" /\ turn.out = <<Fallback>>)

\* C5: after a turn with a fault the user's entry of action_state is what it
\* was before the turn.
C5_FaultRollsBack == (TurnFaulted /\ turn.id # None) => EntryUnchanged

\* C6: when a gated method called its external handler and the handler
\* reported (success or failure; for the Google account: create_user ran to
\* its end), the user has no entry once the turn is over.
ExternalReported ==
    \/ MadeCall(MutatingCalls \ {"google.create_user"}, {"ok", "fail"})
    \/ MadeCall({"google.send_message"}, {"ok"})

Apologies ==
    { Msg("Huh, that didn't work, check out the logs?", <<>>) }
    \cup { Msg("Huh, I couldn't add {} to *{}* in GitHub.", <<<<w>>>>) : w \in Words }

FailedRecord ==
    [kind |-> "completed", admin_action_complete |-> FALSE,
     message |-> [text |-> "I have failed you.", args |-> <<>>]]

InviteCalls == MutatingCalls \ {"google.create_user"}

CompletedAt == {i \in DOMAIN turn.out : IsCompleted(turn.out[i])}

C8_RecordIffCleared ==
    TurnOver =>
        /\ CompletedAt \subseteq {Len(turn.out)}
        /\ (CompletedAt # {}) <=> turn.popped
        /\ turn.stepset # None => CompletedAt = {}

\* C9: in a turn of an admin that prompts, the recorded step names the first
\* slot missing from the keyword arguments in the action's order, and no
\* external invite or creation is called while a slot is missing.
FirstMissingSlot(fn, kw) ==
    CASE fn = "create_google_account" ->
            IF ~(Has(kw, "person") /\ Len(kw["person"]) >= 2) THEN "name"
            ELSE IF ~Has(kw, "email") THEN "email"
            ELSE IF ~Has(kw, "job_title") THEN "title"
            ELSE None
      [] fn = "invite_to_trello" ->
            IF ~Has(kw, "person") THEN "name"
            ELSE IF ~Has(kw, "email") THEN "email"
            ELSE None
      [] fn = "invite_to_github" ->
            IF ~Has(kw, "username") THEN "username"
            ELSE IF ~Has(kw, "dev_role") THEN "dev_role"
            ELSE None
      [] fn = "invite_to_abacus" ->
            IF ~Has(kw, "email") THEN "email" ELSE None
      [] OTHER -> None

C9_StepIsFirstMissing ==
    LET missing == FirstMissingSlot(turn.g.fn, turn.g.kw) IN
    /\ (turn.stepset # None /\ missing # None) =>
          /\ turn.id \in ADMINS
          /\ turn.stepset = missing
          /\ Get(GetActionState(action_state, turn.id), "step") = missing
    /\ MadeCall(MutatingCalls, {"ok", "fail", "raise"}) => missing = None
    /\ (TurnOver /\ turn.resp = "generator" /\ turn.status = "done" /\ missing # None) =>
          turn.stepset = missing

C9_Witness ==
    /\ turn.g.fn = "create_google_account"
    /\ turn.stepset = "email"
    /\ Has(turn.g.kw, "person")
    /\ ~Has(turn.g.kw, "email")

\* C10 as claimed: a turn that ends with the action still pending, a step
\* being recorded, puts out exactly one unit, the question.
C10_OneQuestion ==
    (TurnOver /\ turn.stepset # None) => Len(turn.out) = 1

\* C10 as amended: a turn that records a step puts out exactly one unit,
\* the question, except when the Google username turned out to be taken:
\* then the message announcing the check comes first and the request for
\* another username second.
UsernameTaken == MadeCall({"google.is_username_available"}, {"fail"})

C10_OneQuestionUnlessTaken ==
    (TurnOver /\ turn.stepset # None) =>
        /\ turn.status = "done"
        /\ \A i \in DOMAIN turn.out : turn.out[i].kind = "msg"
        /\ IF UsernameTaken
           THEN /\ Len(turn.out) = 2
                /\ turn.out[1].text = "Okay, let me check if '{}' is an available Google username."
                /\ turn.out[2].text = "Aw nuts, that name is taken."
                /\ turn.stepset = "username"
           ELSE Len(turn.out) = 1

C10_Witness ==
    /\ TurnOver
    /\ turn.stepset = "username"
    /\ UsernameTaken
    /\ Len(turn.out) = 2

\* C39: whenever create_google_account reaches the creation of the account,
\* the groups handed to create_user are a list, possibly empty, and never
\* absent, also for a job title of generic proper nouns that map to no track.
C39_GroupsHandedAreAList ==
    \A i \in DOMAIN turn.calls :
        turn.calls[i].api = "google.create_user" => Has(turn.g.kw, "google_groups")

(***************************************************************************)
(* Properties of dialogues (DialogueSpec).                                 *)
(***************************************************************************)
\* The text of the turn
Saying == IF said = <<>> THEN <<>> ELSE said[Len(said)]

\* A turn of the admin of the text platform with no action pending
AdminFreshTurn ==
    /\ TurnOver
    /\ turn.id = "text"
    /\ turn.id \in ADMINS
    /\ Get(turn.pre, "action") = None

\* No external call of the turn raised, and the username was available
AllCallsOk == turn.status = "done" /\ ~MadeCall(MutatingCalls \cup
    {"google.is_username_available", "google.members.insert", "google.send_message"},
    {"fail", "raise"})

GoogleDevText ==
    Text(<<"create", "google", "Bill", "Tester", "b@x.co", "title", "software">>)

GoogleDevTeamText ==
    Text(<<"create", "google", "Bill", "Tester", "b@x.co", "title", "software", "the", "backend">>)

\* The output of a Google account creation that ran to its end
CreationOutput(username, groups) ==
    << Msg("Okay, let me check if '{}' is an available Google username.", <<<<username>>>>),
       Msg("We're good to go! Creating the new account now.", <<>>),
       Msg("User created! Going to add them to the following groups now: *{}*", <<groups>>),
       Msg("Sending them a welcome email to their personal address with login credentials to the new account.", <<>>),
       Msg("Google account creation complete! What's next?", <<>>),
       Completed(TRUE, "I have created a new Google Account for {person}.",
                 <<<<"text">>, <<"Bill", "Tester">>>>) >>

DevTeamQuestion == Msg("I see we're adding a developer! What team will they be on?", <<>>)

\* C11 as claimed: for an admin with no pending action, the one input that
\* names Bill Tester, his email and the title of a software engineer, with
\* the username available, puts out the availability message, the proceeding
\* message, a groups message with 'dev', the welcome-mail message and the
\* completion message with a successful record, and creates the account.
C11_OneTurnCreation ==
    (AdminFreshTurn /\ Saying = GoogleDevText /\ AllCallsOk) =>
        /\ Len(turn.out) = 6
        /\ turn.out[6] = CreationOutput("bill", <<"dev">>)[6]
        /\ MadeCall({"google.create_user"}, {"ok"})

\* C11 as amended: that input only asks for the developer's team and records
\* the step dev_role, creating nothing; the input that also names the team
\* (... Software Engineer on the backend team) puts out the five messages,
\* the groups message naming dev and backend, and the successful record, and
\* creates the account in that turn.
C11_OneTurnCreationWithTeam ==
    /\ (AdminFreshTurn /\ Saying = GoogleDevTeamText /\ AllCallsOk) =>
          /\ turn.out = CreationOutput("bill", <<"dev", "backend">>)
          /\ MadeCall({"google.create_user"}, {"ok"})
          /\ ~Has(action_state, "text")
    /\ (AdminFreshTurn /\ Saying = GoogleDevText) =>
          /\ turn.out = <<DevTeamQuestion>>
          /\ turn.stepset = "dev_role"
          /\ turn.calls = <<>>

C11_Witness ==
    /\ AdminFreshTurn /\ Saying = GoogleDevTeamText /\ AllCallsOk
    /\ turn.out = CreationOutput("bill", <<"dev", "backend">>)

\* The chunks of the turn's text, as the chunker found them
SpansSaid == Subtrees(Parse(Tokenize(Saying, turn.pre), turn.pre))

HasSpan(label) == \E i \in DOMAIN SpansSaid : SpansSaid[i].label = label

\* The pending username step, where the first token is the username
AtUsernameStep ==
    /\ Get(turn.pre, "action") \in {"create_google_account", "invite_to_github"}
    /\ Get(turn.pre, "step") = "username"

\* Whether the turn recognized an entity that feeds the key k of kwargs; the
\* groups are fed by the job title and by the dev role.
Recognized(k) ==
    IF AtUsernameStep THEN k = "username"
    ELSE CASE k = "person" -> HasSpan("PERSON")
           [] k = "email" -> HasSpan("EMAIL")
           [] k = "username" -> HasSpan("USERNAME")
           [] k = "job_title" -> HasSpan("JOB_TITLE")
           [] k = "dev_role" -> HasSpan("DEV_ROLE")
           [] k = "google_groups" -> HasSpan("JOB_TITLE") \/ HasSpan("DEV_ROLE")
           [] OTHER -> FALSE

KwargsOf(st) == IF Has(st, "kwargs") THEN st["kwargs"] ELSE EmptyDict

\* C13: over a turn that does not clear the user's entry, every key of kwargs
\* stays, and a value changes only when the turn recognized an entity that
\* feeds that key.
C13_KwargsCarried ==
    (TurnOver /\ turn.id # None /\ ~turn.popped /\ Has(action_state, turn.id)) =>
        LET before == KwargsOf(turn.pre)
            after == KwargsOf(action_state[turn.id])
        IN  \A k \in DOMAIN before :
                /\ Has(after, k)
                /\ after[k] # before[k] => Recognized(k)

C13_Witness ==
    /\ TurnOver /\ turn.id = "text" /\ ~turn.popped /\ Has(action_state, "text")
    /\ Has(KwargsOf(turn.pre), "google_groups")
    /\ KwargsOf(turn.pre)["google_groups"] = <<"dev">>
    /\ KwargsOf(action_state["text"])["google_groups"] = <<"dev", "backend">>
    /\ KwargsOf(action_state["text"])["person"] = KwargsOf(turn.pre)["person"]

\* C14: a turn with no pending action whose text holds no trigger, greeting,
\* bot name or cancel keyword returns the empty response without a fault and
\* leaves the user's entry as it was: none is created, no entity is stored.
NothingToDo ==
    /\ TurnOver
    /\ turn.id # None
    /\ Get(turn.pre, "action") = None
    /\ ~turn.first_cancel
    /\ \A i \in DOMAIN SpansSaid :
          SpansSaid[i].label \notin {"GREETING", "GODZILLA", "CANCEL"}
          /\ ~IsTriggerLabel(SpansSaid[i].label)

C14_NoActionNoChange ==
    NothingToDo =>
        /\ turn.resp = "empty"
        /\ turn.out = <<>>
        /\ EntryUnchanged

\* A turn that starts with a cancel keyword while the user has no action
\* pending
CancelWithNothingPending ==
    /\ TurnOver
    /\ turn.id # None
    /\ turn.first_cancel
    /\ Get(turn.pre, "action") = None

GreetingOnly ==
    /\ TurnOver
    /\ turn.id # None
    /\ Saying # <<>>
    /\ \A i \in DOMAIN Saying : Lower(Saying[i].word) \in greetings

C16_GreetingAnswered ==
    GreetingOnly =>
        /\ turn.status = "done"
        /\ Len(turn.out) = 3
        /\ turn.out[1] \in {Msg(Title(w), <<>>) : w \in greetings}
        /\ turn.out[2] = Msg("Can I help you with anything?", <<>>)
        /\ turn.out[3] = CancelRecord

\* The record of a mutating action that succeeded for the user named name,
\* its values taken from the kwargs kw
SuccessRecord(action, kw, name) ==
    CASE action = "create_google_account" ->
            Completed(TRUE, "I have created a new Google Account for {person}.",
                      <<<<name>>, kw["person"]>>)
      [] action = "invite_to_trello" ->
            Completed(TRUE, "I have invited {person} <{email}> to join our Trello organization.",
                      <<<<name>>, kw["person"], <<kw["email"]>>>>)
      [] action = "invite_to_github" ->
            Completed(TRUE, "I have invited {} to join our GitHub organization.",
                      <<<<name>>, <<kw["username"]>>>>)
      [] action = "invite_to_abacus" ->
            Completed(TRUE, "I have invited <{email}> to join our Abacus organization.",
                      <<<<name>>, <<kw["email"]>>>>)

\* The external action of the turn was carried out
ActionSucceeded ==
    IF turn.action = "create_google_account"
    THEN MadeCall({"google.send_message"}, {"ok"})
    ELSE MadeCall(InviteCalls, {"ok"})

FullCommands ==
    { Text(ws) : ws \in {
        <<"create", "google", "Bill", "Tester", "b@x.co", "title", "software">>,
        <<"create", "google", "Bill", "Tester", "b@x.co", "title", "designer">>,
        <<"create", "google", "Bill", "Tester", "b@x.co", "title", "software", "the", "backend">>,
        <<"add", "Bill", "Tester", "b@x.co", "trello">>,
        <<"add", "@bob", "github", "backend">>,
        <<"add", "b@x.co", "abacus">> } }

\* C18: for a text that holds a trigger and the entities its action requires,
\* whatever the user's entry before the turn, the chunker and the resolver do
\* not raise and the resolved action is not null.
C18_CommandResolved ==
    (turn.n > 0 /\ turn.id # None /\ Saying \in FullCommands) =>
        /\ turn.stage \notin {"chunk", "resolve"}
        /\ turn.action # None

\* The external calls of the turn with the given api
CallsOf(api) == {i \in DOMAIN turn.calls : turn.calls[i].api = api}

\* The username create_google_account is to use for the kwargs it was
\* called with
UsernameToUse ==
    IF Has(turn.g.kw, "username") THEN turn.g.kw["username"]
    ELSE Lower(turn.g.kw["person"][1])

\* A turn that answers the username question of create_google_account and
\* in which respond returned the generator of an action
AnswersUsername ==
    /\ AtUsernameStep
    /\ turn.pre["action"] = "create_google_account"
    /\ turn.resp = "generator"

GithubTeams == UNION {SeqToSet(GITHUB_DEV_ROLES[r]) : r \in DOMAIN GITHUB_DEV_ROLES}

\* One membership request per team id of the role, in order, for the username
RequestsFor(username, role) ==
    [j \in DOMAIN GITHUB_DEV_ROLES[role] |->
        [team |-> GITHUB_DEV_ROLES[role][j], username |-> username]]

\* C21: an invitation of a username to GitHub with dev role r that does not
\* fail on the network issues exactly one team-membership request for each
\* team id configured for r, all for that username.
C21_OneRequestPerTeam ==
    \A i \in CallsOf("github.invite_to_github") :
        \A t \in GithubTeams :
            LET c == turn.calls[i]
                kw == [username |-> c.args[1], dev_role |-> c.args[2]]
                r == GitHubAdminInviteToGithub([github_team |-> t], GithubCallArgs(kw), c.outcome)
            IN  c.outcome # "raise" =>
                   /\ ~r.raised
                   /\ r.requests = RequestsFor(c.args[1], c.args[2])

(***************************************************************************)
(* Properties of slot filling (SlotSpec).                                  *)
(***************************************************************************)
SlotKeys == {"person", "email", "job_title", "google_groups"}

SameSlots(kw1, kw2) ==
    \A k \in SlotKeys :
        /\ Has(kw1, k) = Has(kw2, k)
        /\ Has(kw1, k) /\ Has(kw2, k) => kw1[k] = kw2[k]

\* The words of the title in a title text, bare or after the keyword
TitleWords(t) == IF t \in KeywordTitleTexts THEN Tail(t) ELSE t

\* The kwargs after the one turn that supplies all three to the pending action
OneTurnKwargs(t) ==
    LET st == SlotStart.as["text"]
        input == NameText \o EmailText \o Text(<<"title">>) \o TitleWords(t)
    IN  DetermineAction(Parse(Tokenize(input, st), st), st, SlotStart.as, "text").kwargs

\* The three turns supplied the name, the email and the title t, in some order
SuppliedInThreeTurns(t) ==
    /\ Len(said) = 3
    /\ turn.n = 3
    /\ {said[1], said[2], said[3]} = {NameText, EmailText, t}

\* C12 as claimed: for a pending create_google_account, the name, the email
\* and the title supplied in three turns, in any order, give the same person,
\* email, job_title and google_groups as the three supplied in one turn.
C12_AnyOrder ==
    \A t \in BareTitleTexts \cup KeywordTitleTexts :
        SuppliedInThreeTurns(t) =>
            /\ turn.resp = "generator"
            /\ SameSlots(turn.g.kw, OneTurnKwargs(t))

\* C12 as amended: the same, provided the title comes after the word title,
\* or comes in the last of the three turns, when the step is title.
C12_AnyOrderWhereTitleIsRead ==
    \A t \in BareTitleTexts \cup KeywordTitleTexts :
        (SuppliedInThreeTurns(t) /\ (t \in KeywordTitleTexts \/ said[3] = t)) =>
            /\ turn.resp = "generator"
            /\ turn.pre["action"] = "create_google_account"
            /\ SameSlots(turn.g.kw, OneTurnKwargs(t))
            /\ Has(turn.g.kw, "job_title")

C12_Witness ==
    /\ SuppliedInThreeTurns(Text(<<"title", "designer">>))
    /\ said[1] = Text(<<"title", "designer">>)
    /\ said[3] = NameText
    /\ SameSlots(turn.g.kw, OneTurnKwargs(said[1]))
    /\ turn.g.kw["google_groups"] = <<"design">>

\* The entries that the chunker and the resolver read the step of
ReadsStep(entry) == Get(entry, "action") \in {"create_google_account", "invite_to_github"}

\* C37: at the start of every turn a stored entry whose action is
\* create_google_account or invite_to_github has a step, and the turn after a
\* silent denial of a user who is not an admin does not return the fallback
\* message.
C37_StepStoredWithAction ==
    turn.status # "live" =>
        /\ \A id \in DOMAIN action_state : ReadsStep(action_state[id]) => Has(action_state[id], "step")
        /\ (turn.had_entry /\ turn.id \notin ADMINS /\ ReadsStep(turn.pre)) => turn.resp # "fallback"

\* action_state.get('regexp_tokenize') of an entry
RawMode(entry) == Has(entry, "regexp_tokenize") /\ entry["regexp_tokenize"]

\* C38: between turns, raw tokenization is off for a user whose pending step
\* is name, email or title, and is on only while the pending step is username
\* or dev_role, also after a trigger has switched the pending action.
C38_RawModeOnlyAtRawSteps ==
    turn.status # "live" =>
        \A id \in DOMAIN action_state :
            LET entry == action_state[id] IN
            /\ Get(entry, "step") \in {"name", "email", "title"} => ~RawMode(entry)
            /\ RawMode(entry) => Get(entry, "step") \in {"username", "dev_role"}

(***************************************************************************)
(* Properties of interleaved turns (InterleavedSpec).                      *)
(***************************************************************************)
\* C19: under any interleaving of the turns of two users, the steps of a
\* turn's generator resumed after the other user's respond call started
\* change the entry of the turn's own user only.
C19_OwnEntryOnly == parked.touched \subseteq {parked.id}

\* The generator g is suspended after the external call that performs its
\* action
PastItsCall(g) ==
    \/ g.fn \in InviteActions /\ g.pc = "clear"
    \/ g.fn = "create_google_account" /\ g.pc \in {"groups", "mail", "clear"}

\* The caller took the responses of a command up to the result of its
\* external call and left the rest; the same user's next turn, with no
\* trigger in it, continues the command with the same kwargs
ContinuesUnfinishedCommand ==
    /\ parked.status = "live"
    /\ PastItsCall(parked.g)
    /\ parked.id = turn.id
    /\ turn.had_entry
    /\ ~turn.trigger
    /\ turn.g.fn = parked.g.fn
    /\ turn.g.kw = parked.g.kw

\* C36: for one create or invite command, from its trigger until its entry
\* is cleared, the external call that performs it is made at most once, also
\* when the caller stops taking the output before the completion record: a
\* turn that continues the command does not make the call again.
C36_CallAtMostOnce ==
    ContinuesUnfinishedCommand => ~MadeCall(MutatingCalls, {"ok", "fail"})

(***************************************************************************)
(* Properties of answered prompts (AnswerSpec).                            *)
(***************************************************************************)
\* The place of a step in the order in which an action asks its questions
SlotRank(action, step) ==
    IF action = "invite_to_github"
    THEN (IF step = "username" THEN 1 ELSE 2)
    ELSE CASE step = "name" -> 1
           [] step = "email" -> 2
           [] step = "title" -> 3
           [] step = "dev_role" -> 4
           [] OTHER -> 5

\* The turn called the handler of its action, which decided, and the entry
\* of the admin is cleared
Decided ==
    /\ MadeCall(MutatingCalls, {"ok", "fail"})
    /\ turn.popped
    /\ ~Has(action_state, "text")

\* C22: for an admin who starts any of the four mutating actions with a
\* trigger and answers every question with a value for the slot asked, every
\* turn either asks for a later slot or calls the external handler, reaches
\* its decision and clears the ActionState; the questions being finitely
\* many, the action reaches that decision.
C22_AnsweredToTheEnd ==
    TurnOver =>
        /\ turn.action \in MutatingActions
        /\ \/ Decided
           \/ /\ turn.stepset # None
              /\ Has(turn.pre, "step") =>
                    SlotRank(turn.action, turn.stepset)
                       > SlotRank(turn.pre["action"], turn.pre["step"])

(***************************************************************************)
(* Properties of resolution (ResolveSpec).                                 *)
(***************************************************************************)
\* determine_action returned in the turn, past the username short circuit
Resolved ==
    /\ turn.n > 0
    /\ turn.id # None
    /\ turn.stage \in {"done", "gate", "denied"}
    /\ ~AtUsernameStep

\* The places of the trigger spans among the spans of the turn
TriggersSaid == {i \in DOMAIN SpansSaid : IsTriggerLabel(SpansSaid[i].label)}

\* C23: a GREETING span sets the greet action only if no action has been
\* chosen yet: a turn resolves to greet only when no action was pending
\* before it and it holds no trigger span.
C23_GreetOnlyIfNoAction ==
    (Resolved /\ turn.action = "greet") =>
        /\ Get(turn.pre, "action") = None
        /\ TriggersSaid = {}

\* A mutating action was pending before the turn, and the turn neither
\* resolved to cancel, nor brought a handler decision, nor named an action
PendingAndNotEnded ==
    /\ TurnOver
    /\ turn.id # None
    /\ Get(turn.pre, "action") \in MutatingActions
    /\ turn.action # "cancel"
    /\ ~MadeCall(MutatingCalls, {"ok", "fail"})
    /\ GenerateInDictRaises(turn.pre) \/ TriggersSaid = {}

\* The entry of the turn's user still holds the action pending before the
\* turn and every key of the kwargs collected before it
StillPending ==
    LET st == GetActionState(action_state, turn.id)
    IN  /\ Get(st, "action") = turn.pre["action"]
        /\ Has(turn.pre, "kwargs") =>
              /\ Has(st, "kwargs")
              /\ DOMAIN turn.pre["kwargs"] \subseteq DOMAIN st["kwargs"]

\* C24: a pending mutating action, with the kwargs collected so far, stays
\* pending across a turn that brings neither a cancel resolution nor a
\* terminal handler decision: a greeting, a bot-name mention or unrecognized
\* text does not remove it.
C24_PendingUntilEnded == PendingAndNotEnded => StillPending

\* The chunker ran in the turn and found trigger spans and no CANCEL span
TriggersAndNoCancel ==
    /\ turn.n > 0
    /\ turn.id # None
    /\ turn.stage \notin {"context", "tag", "chunk"}
    /\ TriggersSaid # {}
    /\ ~HasSpan("CANCEL")

\* The action the last trigger span names
LastTriggerAction ==
    LabelLower(SpansSaid[CHOOSE i \in TriggersSaid : \A j \in TriggersSaid : j <= i].label)

\* C25: in a turn with trigger spans and no CANCEL span the resolver returns
\* the action of the last trigger span, whatever action was pending before,
\* and the kwargs collected before the turn are carried over to it.
C25_LastTriggerWins ==
    TriggersAndNoCancel =>
        /\ turn.stage # "resolve"
        /\ turn.action = LastTriggerAction
        /\ (turn.resp = "generator" /\ Has(turn.pre, "kwargs")) =>
              DOMAIN turn.pre["kwargs"] \subseteq DOMAIN turn.g.kw

\* The kwargs determine_action returned in a turn that went on to an action
KwargsSaid == turn.g.kw

\* The tracks the chunker classified the words of the span into
TracksOf(span) ==
    {span.leaves[i].tag : i \in DOMAIN span.leaves} \cap SeqToSet(GOOGLE_GROUP_TAGS)

\* The turn resolved to an action that is not cancel, and respond returned
\* its generator
WentOn == Resolved /\ turn.action # "cancel" /\ turn.resp = "generator"

\* C29: the groups resolved for a JOB_TITLE span are those of every track
\* one of its words was classified into; the classification of a later word
\* does not overwrite that of an earlier one.
C29_GroupsOfEveryTrack ==
    WentOn =>
        \A i \in DOMAIN SpansSaid :
            SpansSaid[i].label = "JOB_TITLE" =>
                \A t \in TracksOf(SpansSaid[i]) :
                    /\ Has(KwargsSaid, "google_groups")
                    /\ SeqToSet(GOOGLE_GROUPS[t]) \subseteq SeqToSet(KwargsSaid["google_groups"])

\* The DEV_ROLE words of the turn
RolesSaid == WordEntities(SpansSaid, "DEV_ROLE")

\* The groups resolved before the DEV_ROLE words are placed: those of the
\* job titles of the turn, else those the pending entry carried, else none
GroupsResolved ==
    IF GoogleGroupEntities(SpansSaid) # <<>> THEN GoogleGroupEntities(SpansSaid)
    ELSE IF Has(KwargsOf(turn.pre), "google_groups") THEN KwargsOf(turn.pre)["google_groups"]
    ELSE <<>>

\* C30: a DEV_ROLE span is appended to the group list only when the resolved
\* groups equal the developer-track groups; with no groups, or groups of
\* another track, it is stored as the dev_role slot and the groups are left
\* as resolved.
C30_RoleAppendedOnlyToDevGroups ==
    (WentOn /\ RolesSaid # <<>>) =>
        IF GroupsResolved = GOOGLE_GROUPS["GDEV"]
        THEN /\ Has(KwargsSaid, "google_groups")
             /\ KwargsSaid["google_groups"] = GroupsResolved \o RolesSaid
        ELSE /\ Has(KwargsSaid, "dev_role")
             /\ KwargsSaid["dev_role"] = RolesSaid[1]
             /\ GroupsResolved # <<>> =>
                    /\ Has(KwargsSaid, "google_groups")
                    /\ KwargsSaid["google_groups"] = GroupsResolved

(***************************************************************************)
(* Properties of the chunker (ChunkSpec).                                  *)
(***************************************************************************)
\* The labels of the entries of iobs, in order
LabelsOf(iobs) == [i \in DOMAIN iobs |-> iobs[i].label]

\* The priority order of the rules: whether rule k applies to the token
\* under the flags d; first: no token was labeled before it
RuleApplies(k, d, tok, first) ==
    LET lw == Lower(tok.word) IN
    CASE k = 1 -> lw \in gz_aliases
      [] k = 2 -> lw \in greetings
      [] k = 3 -> EmailMatch(lw)
      [] k = 4 -> StartsWithAt(lw)
      [] k = 5 -> lw \in create_actions /\ tok.tag = "VB"
      [] k = 6 -> d.create_action /\ lw = "google"
      [] k = 7 -> d.create_google_account /\ lw = "title"
      [] k = 8 -> d.check_for_title
      [] k = 9 -> lw \in SeqToSet(GOOGLE_DEV_ROLES) \cup DOMAIN GITHUB_DEV_ROLES
      [] k = 10 -> lw \in invite_actions /\ tok.tag = "VB"
      [] k = 11 -> d.invite_action /\ lw \in {"trello", "github", "abacus"}
      [] k = 12 -> lw \in cancel_actions /\ first /\ (d.create_action \/ d.invite_action)
      [] k = 13 -> tok.tag = "NP" \/ (d.person /\ IsUpperFirst(tok.word))
      [] OTHER -> TRUE

\* The first rule of the order that applies
FirstRule(d, tok, first) ==
    CHOOSE k \in 1..14 :
        /\ RuleApplies(k, d, tok, first)
        /\ \A j \in 1..(k - 1) : ~RuleApplies(j, d, tok, first)

\* A token the job-title sub-rule classifies into a track or as generic
TitleQualifies(tok) ==
    \/ Lower(tok.word) \in dev_titles \cup design_titles \cup creative_titles \cup founder_titles
    \/ tok.tag = "NP"

\* The label rule k gives the token
RuleLabel(k, tok) ==
    CASE k = 1 -> "GODZILLA"
      [] k = 2 -> "GREETING"
      [] k = 3 -> "EMAIL"
      [] k = 4 -> "USERNAME"
      [] k = 6 -> "CREATE_GOOGLE_ACCOUNT"
      [] k = 8 -> IF TitleQualifies(tok) THEN "JOB_TITLE" ELSE ""
      [] k = 9 -> "DEV_ROLE"
      [] k = 11 -> CASE Lower(tok.word) = "trello" -> "INVITE_TO_TRELLO"
                     [] Lower(tok.word) = "github" -> "INVITE_TO_GITHUB"
                     [] OTHER -> "INVITE_TO_ABACUS"
      [] k = 12 -> "CANCEL"
      [] k = 13 -> "PERSON"
      [] OTHER -> ""

\* The flags after rule k has labeled the token
RuleFlags(k, d, tok) ==
    CASE k = 5 -> [d EXCEPT !.create_action = TRUE,
                            !.invite_action = (@ \/ Lower(tok.word) \in invite_actions)]
      [] k = 6 -> [d EXCEPT !.create_google_account = TRUE]
      [] k = 7 -> [d EXCEPT !.check_for_title = TRUE]
      [] k = 8 -> IF TitleQualifies(tok) THEN [d EXCEPT !.finding_title = TRUE]
                  ELSE IF d.finding_title
                  THEN [d EXCEPT !.finding_title = FALSE, !.check_for_title = FALSE]
                  ELSE d
      [] k = 10 -> [d EXCEPT !.invite_action = TRUE]
      [] k = 11 -> CASE Lower(tok.word) = "trello" -> [d EXCEPT !.invite_to_trello = TRUE]
                     [] Lower(tok.word) = "github" -> [d EXCEPT !.invite_to_github = TRUE]
                     [] OTHER -> [d EXCEPT !.invite_to_abacus = TRUE]
      [] k = 13 -> [d EXCEPT !.person = TRUE]
      [] k = 14 -> [d EXCEPT !.person = FALSE]
      [] OTHER -> d

\* The labels and the flags the rules give from token i on; rule 12 ends
\* the scan
RECURSIVE RuleScan(_, _, _, _)
RuleScan(text, i, d, labels) ==
    IF i > Len(text) THEN [labels |-> labels, d |-> d]
    ELSE LET k == FirstRule(d, text[i], labels = <<>>)
             ls == Append(labels, RuleLabel(k, text[i]))
         IN  IF k = 12 THEN [labels |-> ls, d |-> d]
             ELSE RuleScan(text, i + 1, RuleFlags(k, d, text[i]), ls)

EntryOfToken(iob, tok) ==
    iob.word \in {tok.word, Lower(tok.word), UnwrapEmail(Lower(tok.word)),
                  StripAt(Lower(tok.word))}

\* The entries of iobs are those of the first tokens of the text, in order
EntriesInOrder ==
    /\ Len(scan.iobs) <= Len(scan.text)
    /\ \A i \in DOMAIN scan.iobs : EntryOfToken(scan.iobs[i], scan.text[i])

\* C27: for every token sequence and every entry the chunker does not raise
\* and visits each token once: its output holds one entry per token, in the
\* order of the tokens, except that it stops at a token it labels CANCEL and
\* labels no later token.
C27_OneEntryPerToken ==
    /\ scan.status # "raised"
    /\ scan.status = "scanning" =>
          /\ EntriesInOrder
          /\ Len(scan.iobs) = Len(scan.text)
          /\ \A i \in DOMAIN scan.iobs : scan.iobs[i].label # "CANCEL"
    /\ scan.status = "stopped" =>
          /\ EntriesInOrder
          /\ scan.iobs # <<>>
          /\ \A i \in DOMAIN scan.iobs :
                scan.iobs[i].label = "CANCEL" <=> i = Len(scan.iobs)

\* C28: the chunker labels a token CANCEL only if it is a cancel keyword and
\* the very first token of the text while create_action or invite_action is
\* set; so a CANCEL entry is the only entry of the output, and the entry of
\* the user held a pending create or invite action.
C28_CancelOnlyFirstAndPending ==
    \A i \in DOMAIN scan.iobs :
        scan.iobs[i].label = "CANCEL" =>
            /\ i = 1
            /\ Lower(scan.text[1].word) \in cancel_actions
            /\ Len(scan.iobs) = 1
            /\ scan.d.create_action \/ scan.d.invite_action
            /\ Get(scan.st, "action") \in MutatingActions

\* A cancel keyword stopped the scan of a text of three tokens
C28_Witness ==
    /\ scan.status = "stopped"
    /\ scan.iobs[1].label = "CANCEL"
    /\ Len(scan.text) = 3


\* The token the pass of the while loop in this step handles
TokenScanned == scan'.text[Len(scan'.text)]

\* The entry the pass appends
EntryScanned == scan'.iobs[Len(scan'.iobs)]

\* A pass of the while loop
ScanStep ==
    /\ scan.status = "scanning"
    /\ scan'.status \in {"scanning", "stopped"}
    /\ Len(scan'.iobs) = Len(scan.iobs) + 1

\* A pass in which a token that is no title reaches the job-title sub-rule
NoTitleInSearch ==
    /\ ScanStep
    /\ scan.d.check_for_title
    /\ FirstRule(scan.d, TokenScanned, scan.iobs = <<>>) = 8
    /\ ~TitleQualifies(TokenScanned)

\* C32 as stated: while the title search is open, a token that reaches the
\* job-title sub-rule and is no title closes the search and clears its flags,
\* whether or not a JOB_TITLE span was opened, and is labeled outside-span.
C32_NoTitleClosesSearch ==
    [][NoTitleInSearch =>
          /\ ~scan'.d.check_for_title
          /\ ~scan'.d.finding_title
          /\ EntryScanned.bio = "O"]_vars

\* C32: while the title search is open, a token that reaches the job-title
\* sub-rule and is no title is labeled outside-span; it closes the search
\* and clears its flags when a JOB_TITLE span was opened, and leaves the
\* search open, with every flag as it was, when none was.
C32_NoTitleClosesOpenedSearch ==
    [][NoTitleInSearch =>
          /\ EntryScanned.bio = "O"
          /\ IF scan.d.finding_title
             THEN scan'.d = [scan.d EXCEPT !.finding_title = FALSE, !.check_for_title = FALSE]
             ELSE scan'.d = scan.d]_vars

\* At step title a word that is no title left the search open, the title
\* after it was found and the word after the title closed the search
C32_Witness ==
    /\ scan.status = "scanning"
    /\ Get(scan.st, "step") = "title"
    /\ LabelsOf(scan.iobs) = <<"", "JOB_TITLE", "">>
    /\ ~TitleQualifies(scan.text[1])
    /\ FirstRule(GenerateInDict(scan.st), scan.text[1], TRUE) = 8
    /\ FirstRule([GenerateInDict(scan.st) EXCEPT !.finding_title = TRUE], scan.text[3], FALSE) = 8
    /\ ~scan.d.check_for_title
    /\ ~scan.d.finding_title

\* C33: a token without a proper-noun tag is labeled as the continuation of
\* a PERSON span only if the token right before it was labeled PERSON, and
\* after a token that is not labeled PERSON, whichever rule labels it, the
\* open-person flag is clear.
C33_PersonFlagFollowsLabel ==
    scan.status \in {"scanning", "stopped"} =>
        /\ \A i \in DOMAIN scan.iobs :
              (scan.iobs[i].label = "PERSON" /\ scan.text[i].tag # "NP") =>
                  /\ i > 1
                  /\ scan.iobs[i - 1].label = "PERSON"
        /\ (scan.iobs # <<>> /\ scan.iobs[Len(scan.iobs)].label # "PERSON") => ~scan.d.person

(***************************************************************************)
(* Properties of raw free-form slots (DialogueSpec).                       *)
(***************************************************************************)
\* The turn went through the resolver with a pending action whose step is a
\* slot read under raw tokenization
RawSlotTurn ==
    /\ turn.n > 0
    /\ turn.had_entry
    /\ turn.stage \notin {"context", "tag"}
    /\ Get(turn.pre, "action") \in MutatingActions
    /\ Get(turn.pre, "step") \in {"username", "dev_role"}
    /\ Has(turn.pre, "regexp_tokenize")

\* The words of the tokens of the turn
WordsSaid ==
    LET tokens == Tokenize(Saying, turn.pre) IN [i \in DOMAIN tokens |-> tokens[i].word]

\* The key of kwargs the pending step collects
RawSlot == IF turn.pre["step"] = "username" THEN "username" ELSE "dev_role"

\* C31: with a pending action whose step is a raw free-form slot (username
\* or dev_role), the resolver returns the pending action at once and the slot
\* holds all the tokens of the turn.
C31_RawSlotTakesAllTokens ==
    RawSlotTurn =>
        /\ turn.resp = "generator"
        /\ turn.action = turn.pre["action"]
        /\ turn.g.pc = "start" =>
              /\ Has(KwargsSaid, RawSlot)
              /\ <<KwargsSaid[RawSlot]>> = WordsSaid


(***************************************************************************)
(* Properties of the order of mutation and output (DialogueSpec).          *)
(***************************************************************************)
\* A step that is not a respond call: the caller resumes the generator of
\* the turn
ResumeStep == turn'.n = turn.n

\* The unit the step emitted last
LastEmitted == turn'.out[Len(turn'.out)]

\* The step emitted a unit
Emitted == Len(turn'.out) > Len(turn.out)

\* C34: within a turn every mutation of action_state is made no later than
\* the output unit it belongs to: a step of the generator that records a
\* pending step, calls an external handler or clears the state emits a unit
\* (the question, the result message, the completion record) after doing
\* so unless it raises, and once the caller holds all the output nothing
\* changes action_state before the next respond call.
C34_MutationBeforeEmission ==
    [][ResumeStep =>
          /\ turn.status # "live" => action_state' = action_state
          /\ (action_state' # action_state \/ turn'.calls # turn.calls) =>
                 (turn'.status = "raised" \/ Emitted)
          /\ (turn'.stepset # turn.stepset /\ turn'.status # "raised") =>
                 /\ Emitted
                 /\ LastEmitted.kind = "msg"
                 /\ Get(GetActionState(action_state', turn.id), "step") = turn'.stepset
          /\ (turn'.popped /\ ~turn.popped /\ turn'.status # "raised") =>
                 /\ Emitted
                 /\ IsCompleted(LastEmitted)
                 /\ ~Has(action_state', turn.id)]_vars

\* A turn that called Trello, reported it and cleared the state with its
\* completion record is over
C34_Witness ==
    /\ turn.status = "done"
    /\ turn.g.fn = "invite_to_trello"
    /\ turn.popped
    /\ Len(turn.calls) = 1
    /\ Len(turn.out) = 2
    /\ IsCompleted(turn.out[2])
    /\ turn.had_entry
    /\ ~Has(action_state, turn.id)


(***************************************************************************)
(* Properties of concurrent respond calls (ConcurrentSpec).                *)
(***************************************************************************)
\* C35: under any interleaving of the respond calls of an admin and of a
\* user who is not an admin, no body of a mutating handler runs for the turn
\* of the user who is not an admin: the turn gets no generator, records no
\* step and calls no external handler.
C35_GateUsesSender ==
    NonAdminMutatingTurn =>
        /\ turn.resp # "generator"
        /\ turn.stepset = None
        /\ turn.calls = <<>>


(***************************************************************************)
(* Properties of carried kwargs (CarriedSpec).                             *)
(***************************************************************************)
\* invite_to_github is pending for an admin at step dev_role with a username
\* collected, and the turn is one configured dev-role keyword
AnswersDevRole ==
    /\ turn.n > 0
    /\ turn.id \in ADMINS
    /\ Get(turn.pre, "action") = "invite_to_github"
    /\ Get(turn.pre, "step") = "dev_role"
    /\ Truthy(KwargsOf(turn.pre), "username")
    /\ Len(WordsSaid) = 1
    /\ Lower(WordsSaid[1]) \in DOMAIN GITHUB_DEV_ROLES

\* C40: when invite_to_github is pending for an admin at step dev_role with
\* a username collected, a turn that supplies a configured dev-role keyword
\* fills the dev_role slot and dispatches the invitation in that turn,
\* whatever kwargs were carried over.
C40_DevRoleAnswerDispatches ==
    AnswersDevRole =>
        /\ turn.resp = "generator"
        /\ turn.action = "invite_to_github"
        /\ Has(turn.g.kw, "dev_role")
        /\ turn.g.kw["dev_role"] = Lower(WordsSaid[1])
        /\ turn.status # "live" => MadeCall({"github.invite_to_github"}, {"ok", "fail", "raise"})

=============================================================================
